---------------------------- MODULE Spec2Model ----------------------------
(***************************************************************************)
(* Contract state-transition core of the DLC manager                       *)
(* (dlc-manager/src/contract_updater.rs).                                  *)
(*                                                                         *)
(* Two parties, the offerer "O" and the accepter "A", take one contract    *)
(* through offer_contract, accept_contract,                                *)
(* verify_accepted_and_sign_contract and verify_signed_contract.  The      *)
(* AcceptDlc and SignDlc messages travel over a network that may alter     *)
(* them.  Transactions, signatures and witnesses are symbolic: a signature *)
(* is the record of what was signed and with which key, so that it         *)
(* verifies exactly against that key, transaction, script and value.       *)
(* Indices and cursors keep the 0-based values of the source.              *)
(***************************************************************************)
EXTENDS Integers, Sequences, FiniteSets, TLC

\* ------------------------------------------------------------------ bounds
\* Largest number of CETs (outcomes over all contract-infos) of a contract.
MaxCets == 3
\* Largest number of funding inputs both parties contribute together.
MaxFundingInputs == 3
\* Serial ids the wallets draw from (the spec's interleave example).
Serials == {2, 5, 7}

\* ----------------------------------------------------------------- options
\* Option<T>: None is the empty sequence, Some(x) the one-element sequence.
None == <<>>
Some(x) == <<x>>
IsSome(o) == o # None
Unwrap(o) == o[1]

\* ------------------------------------------------------- sequence helpers
\* s[i] of the source, i counted from 0.
At(s, i) == s[i + 1]

\* slice::iter().position(|y| y == x): the first index from 0, or None.
Position(s, x) ==
    IF \E i \in 1..Len(s) : s[i] = x
    THEN Some((CHOOSE i \in 1..Len(s) : s[i] = x /\ \A j \in 1..(i - 1) : s[j] # x) - 1)
    ELSE None

RECURSIVE InsertSorted(_, _)
InsertSorted(s, x) ==
    IF s = <<>> THEN <<x>>
    ELSE IF x < Head(s) THEN <<x>> \o s
    ELSE <<Head(s)>> \o InsertSorted(Tail(s), x)

RECURSIVE sort_unstable(_)
\* Vec<u64>::sort_unstable: ascending order.
sort_unstable(s) ==
    IF s = <<>> THEN <<>>
    ELSE InsertSorted(sort_unstable(SubSeq(s, 1, Len(s) - 1)), s[Len(s)])

RECURSIVE InsertInput(_, _)
InsertInput(s, x) ==
    IF s = <<>> THEN <<x>>
    ELSE IF x.serial_id < Head(s).serial_id THEN <<x>> \o s
    ELSE <<Head(s)>> \o InsertInput(Tail(s), x)

RECURSIVE SortInputs(_)
\* Stable ascending sort of transaction inputs by serial id.
SortInputs(s) ==
    IF s = <<>> THEN <<>>
    ELSE InsertInput(SortInputs(SubSeq(s, 1, Len(s) - 1)), s[Len(s)])

RECURSIVE Concat(_)
Concat(ss) == IF ss = <<>> THEN <<>> ELSE Head(ss) \o Concat(Tail(ss))

RECURSIVE SumSeq(_)
SumSeq(s) == IF s = <<>> THEN 0 ELSE Head(s) + SumSeq(Tail(s))

\* ----------------------------------------------------------------- results
\* Result<T, Error>: ok with a value, or the kind of the error.
Ok(v) == [ok |-> TRUE, err |-> "", val |-> v]
Err(kind) == [ok |-> FALSE, err |-> kind, val |-> None]

\* -------------------------------------------------------------- parties
OfferKey == "O"
AcceptKey == "A"
\* The adaptor keys of a channel, given to the internal transitions in place
\* of the fund keys.
OfferAdaptorKey == "OC"
AcceptAdaptorKey == "AC"
SecretKeys == {OfferKey, AcceptKey, OfferAdaptorKey, AcceptAdaptorKey}
\* The public key of a secret key; keys are named by their owner.
PublicKey(sk) == sk

\* ---------------------------------------------------- funding inputs
\* Transaction::consensus_decode of the prev_tx bytes: the number of outputs
\* of the previous transaction, or None for bytes that do not decode.
consensus_decode(prev_tx) ==
    IF prev_tx.decodable THEN Some(prev_tx.outputs) ELSE None

\* A wallet UTXO as a FundingInputInfo.
FundingInput(serial, utxo, kind) ==
    [input_serial_id |-> serial,
     prev_tx |-> [id |-> utxo, decodable |-> kind # "undecodable", outputs |-> 1],
     prev_tx_vout |-> IF kind = "no_output" THEN 1 ELSE 0]

\* conversion_utils::get_tx_input_infos: the TxInputInfo of each funding
\* input of a message (its outpoint and serial id).
get_tx_input_infos(funding_inputs) ==
    [i \in 1..Len(funding_inputs) |->
        [serial_id |-> funding_inputs[i].input_serial_id,
         outpoint |-> <<funding_inputs[i].prev_tx.id, funding_inputs[i].prev_tx_vout>>]]

\* ------------------------------------------------ contract infos, payouts
\* ContractInfo::get_payouts(total_collateral): one payout per outcome; the
\* outcomes of a contract-info alternate between the two parties, starting
\* with the party its oracle event names.
get_payouts(contract_info, total_collateral) ==
    [j \in 1..contract_info.outcomes |->
        LET offer == IF (j + contract_info.oracle) % 2 = 0 THEN total_collateral ELSE 0
        IN [offer |-> offer, accept |-> total_collateral - offer]]

\* The adaptor point of outcome j (from 0) of a contract-info: a function of
\* its oracle announcement and of the outcome.
AdaptorPoint(contract_info, j) == <<contract_info.oracle, j>>


\* ------------------------------------------------------------ signatures
\* dlc::util::get_raw_sig_for_tx_input: the ECDSA signature of the input of a
\* transaction under a script and value, made with a secret key.
get_raw_sig_for_tx_input(tx, input_index, script_pubkey, value, sk) ==
    [key |-> sk, tx |-> tx, index |-> input_index, script |-> script_pubkey,
     value |-> value]

\* dlc::verify_tx_input_sig: the signature is the one the owner of pk makes
\* for this transaction input, script and value.
verify_tx_input_sig(signature, tx, input_index, script_pubkey, value, pk) ==
    \E sk \in SecretKeys :
        /\ PublicKey(sk) = pk
        /\ signature = get_raw_sig_for_tx_input(tx, input_index, script_pubkey, value, sk)

\* An ECDSA adaptor signature of a CET, encrypted under an adaptor point.
AdaptorSign(sk, cet, script_pubkey, value, point) ==
    [key |-> sk, tx |-> cet, script |-> script_pubkey, value |-> value,
     point |-> point]

AdaptorVerify(signature, pk, cet, script_pubkey, value, point) ==
    \E sk \in SecretKeys :
        /\ PublicKey(sk) = pk
        /\ signature = AdaptorSign(sk, cet, script_pubkey, value, point)

\* ------------------------------------------------- transaction assembler
\* The 2-of-2 script of the fund output.
FundingScriptPubkey(offer_pk, accept_pk) == [multisig |-> <<offer_pk, accept_pk>>]

\* What the id of the fund transaction commits to: everything but witnesses.
FundTxId(fund) ==
    [inputs |-> [i \in 1..Len(fund.input) |-> fund.input[i].outpoint],
     value |-> fund.value, script |-> fund.script, lock_time |-> fund.lock_time]

\* The payout outputs of a CET or of the refund: ascending by payout serial
\* id, outputs of value zero left out.
PayoutOutputs(offer_spk, offer_serial, offer_value, accept_spk, accept_serial, accept_value) ==
    LET o == [script_pubkey |-> offer_spk, value |-> offer_value]
        a == [script_pubkey |-> accept_spk, value |-> accept_value]
        NonZero(out) == out.value > 0
    IN SelectSeq(IF offer_serial <= accept_serial THEN <<o, a>> ELSE <<a, o>>,
                 NonZero)

\* dlc::create_cets: one CET per payout, all spending the same input.
create_cets(cet_input, offer_spk, offer_serial, accept_spk, accept_serial, payouts, lock_time) ==
    [j \in 1..Len(payouts) |->
        [input |-> cet_input,
         output |-> PayoutOutputs(offer_spk, offer_serial, payouts[j].offer,
                                  accept_spk, accept_serial, payouts[j].accept),
         lock_time |-> lock_time]]

\* dlc::create_dlc_transactions: the fund transaction (inputs of both parties
\* ascending by serial id, no witness yet), the CETs of the payouts, the
\* refund, and the funding script.  Payouts above the sum of the two
\* collaterals are refused.
create_dlc_transactions(offer_params, accept_params, payouts, refund_locktime, fund_lock_time, cet_locktime) ==
    LET total == offer_params.collateral + accept_params.collateral
        script == FundingScriptPubkey(offer_params.fund_pubkey,
                                      accept_params.fund_pubkey)
        unsigned(inp) == [serial_id |-> inp.serial_id, outpoint |-> inp.outpoint,
                          witness |-> <<>>]
        all_inputs == offer_params.inputs \o accept_params.inputs
        fund == [input |-> SortInputs([i \in 1..Len(all_inputs) |-> unsigned(all_inputs[i])]),
                 value |-> total, script |-> script, lock_time |-> fund_lock_time]
        cet_input == [previous_output |-> FundTxId(fund)]
    IN IF \E j \in 1..Len(payouts) : payouts[j].offer + payouts[j].accept > total
       THEN Err("InvalidParameters")
       ELSE Ok([fund |-> fund,
                cets |-> create_cets(cet_input,
                                     offer_params.payout_script_pubkey,
                                     offer_params.payout_serial_id,
                                     accept_params.payout_script_pubkey,
                                     accept_params.payout_serial_id,
                                     payouts, cet_locktime),
                refund |-> [input |-> cet_input,
                            output |-> PayoutOutputs(
                                offer_params.payout_script_pubkey,
                                offer_params.payout_serial_id,
                                offer_params.collateral,
                                accept_params.payout_script_pubkey,
                                accept_params.payout_serial_id,
                                accept_params.collateral),
                            lock_time |-> refund_locktime],
                funding_script_pubkey |-> script])

\* DlcTransactions::get_fund_output().value
get_fund_output_value(dlc_transactions) == dlc_transactions.fund.value

\* --------------------------------------------------------- adaptor engine
\* The AdaptorInfo of a contract-info: per outcome leaf the RangeInfo with the
\* index of its CET in the list the engine was given and the index of its
\* signature in the flat signature list.
RangeInfos(contract_info, start) ==
    [j \in 1..contract_info.outcomes |->
        [cet_index |-> j - 1, adaptor_index |-> start + j - 1]]

\* ContractInfo::get_adaptor_info: the AdaptorInfo and one adaptor signature
\* per outcome, the first one over cets[0].
get_adaptor_info(contract_info, total_collateral, sk, script_pubkey, value, cets, adaptor_index_start) ==
    [info |-> RangeInfos(contract_info, adaptor_index_start),
     sigs |-> [j \in 1..contract_info.outcomes |->
                 AdaptorSign(sk, At(cets, j - 1), script_pubkey, value,
                             AdaptorPoint(contract_info, j - 1))]]

\* The signatures of the block that starts at `start` all verify, each against
\* the CET its leaf names; a signature the list does not hold does not verify.
BlockVerifies(contract_info, leaves, pk, script_pubkey, value, cets, sigs, start) ==
    \A j \in 1..Len(leaves) :
        /\ start + j <= Len(sigs)
        /\ leaves[j].cet_index < Len(cets)
        /\ AdaptorVerify(At(sigs, start + j - 1), pk,
                         At(cets, leaves[j].cet_index), script_pubkey, value,
                         AdaptorPoint(contract_info, j - 1))

\* ContractInfo::verify_and_get_adaptor_info: (AdaptorInfo, next start index),
\* or InvalidAdaptorSignature.
verify_and_get_adaptor_info(contract_info, total_collateral, pk, script_pubkey, value, cets, sigs, start) ==
    LET info == RangeInfos(contract_info, start)
    IN IF BlockVerifies(contract_info, info, pk, script_pubkey, value, cets,
                        sigs, start)
       THEN Ok(<<info, start + Len(info)>>)
       ELSE Err("InvalidAdaptorSignature")

\* ContractInfo::verify_adaptor_info: the same check with the cached
\* AdaptorInfo; the next start index.
verify_adaptor_info(contract_info, pk, script_pubkey, value, cets, sigs, start, adaptor_info) ==
    IF BlockVerifies(contract_info, adaptor_info, pk, script_pubkey, value, cets,
                     sigs, start)
    THEN Ok(start + Len(adaptor_info))
    ELSE Err("InvalidAdaptorSignature")

\* ContractInfo::get_adaptor_signatures: own signatures for the leaves of a
\* cached AdaptorInfo, each over the CET its leaf names in `cets`.
get_adaptor_signatures(contract_info, adaptor_info, sk, script_pubkey, value, cets) ==
    [j \in 1..Len(adaptor_info) |->
        AdaptorSign(sk, At(cets, adaptor_info[j].cet_index), script_pubkey,
                    value, AdaptorPoint(contract_info, j - 1))]

\* ------------------------------------------------- collaborators, messages
\* utils::get_party_params: the wallet's PartyParams for a collateral, the
\* secret of its fund key and the funding inputs it selected.
get_party_params(own_collateral, wallet) ==
    IF wallet.fails THEN Err("WalletError")
    ELSE Ok([party_params |->
                [fund_pubkey |-> PublicKey(wallet.fund_key),
                 change_script_pubkey |-> <<"change", wallet.fund_key>>,
                 change_serial_id |-> wallet.change_serial_id,
                 payout_script_pubkey |-> <<"payout", wallet.fund_key>>,
                 payout_serial_id |-> wallet.payout_serial_id,
                 inputs |-> get_tx_input_infos(wallet.utxos),
                 input_amount |-> Len(wallet.utxos),
                 collateral |-> own_collateral],
             fund_secret_key |-> wallet.fund_key,
             funding_inputs_info |-> wallet.utxos])

\* ContractInput::validate: a contract-info list that is not empty, every
\* contract-info with an outcome, the offer collateral within the total.
validate(contract_input) ==
    /\ Len(contract_input.contract_infos) > 0
    /\ \A k \in 1..Len(contract_input.contract_infos) : contract_input.contract_infos[k].outcomes > 0
    /\ contract_input.offer_collateral <= contract_input.total_collateral

\* Signer::get_secret_key_for_pubkey
get_secret_key_for_pubkey(signer, pk) ==
    IF signer.fails = "get_secret_key" \/ PublicKey(signer.key) # pk
    THEN Err("SignerError")
    ELSE Ok(signer.key)

\* Signer::sign_tx_input: the transaction with the witness of the input at
\* input_index replaced by the signer's witness for that index and prevout.
sign_tx_input(signer, tx, input_index, tx_out) ==
    IF signer.fails = "sign_tx_input" \/ input_index >= Len(tx.input)
    THEN Err("SignerError")
    ELSE Ok([tx EXCEPT !.input[input_index + 1].witness =
                <<[by |-> signer.key, index |-> input_index, prevout |-> tx_out]>>])

\* bitcoin::Witness::from_vec over the witness elements of a FundingSignature.
witness_from_elements(witness_elements) ==
    [i \in 1..Len(witness_elements) |-> witness_elements[i].witness]

\* A witness as the WitnessElement list of a FundingSignature.
witness_to_elements(witness) ==
    [witness_elements |-> [i \in 1..Len(witness) |-> [witness |-> witness[i]]]]

\* CetAdaptorSignatures of a message from a signature list, and back.
to_cet_adaptor_signatures(sigs) ==
    [ecdsa_adaptor_signatures |-> [i \in 1..Len(sigs) |-> [signature |-> sigs[i]]]]

from_cet_adaptor_signatures(cet_adaptor_signatures) ==
    [i \in 1..Len(cet_adaptor_signatures.ecdsa_adaptor_signatures) |-> cet_adaptor_signatures.ecdsa_adaptor_signatures[i].signature]

\* OfferDlc from an OfferedContract, and the receiver's OfferedContract.
to_offer_msg(oc) ==
    [offer_collateral |-> oc.offer_params.collateral,
     total_collateral |-> oc.total_collateral,
     contract_info |-> oc.contract_info,
     funding_pubkey |-> oc.offer_params.fund_pubkey,
     payout_spk |-> oc.offer_params.payout_script_pubkey,
     payout_serial_id |-> oc.offer_params.payout_serial_id,
     change_spk |-> oc.offer_params.change_script_pubkey,
     change_serial_id |-> oc.offer_params.change_serial_id,
     funding_inputs |-> oc.funding_inputs_info,
     cet_locktime |-> oc.cet_locktime,
     refund_locktime |-> oc.refund_locktime]

from_offer_msg(m) ==
    [is_offer_party |-> FALSE,
     offer_params |->
        [fund_pubkey |-> m.funding_pubkey,
         change_script_pubkey |-> m.change_spk,
         change_serial_id |-> m.change_serial_id,
         payout_script_pubkey |-> m.payout_spk,
         payout_serial_id |-> m.payout_serial_id,
         inputs |-> get_tx_input_infos(m.funding_inputs),
         input_amount |-> Len(m.funding_inputs),
         collateral |-> m.offer_collateral],
     contract_info |-> m.contract_info,
     total_collateral |-> m.total_collateral,
     funding_inputs_info |-> m.funding_inputs,
     cet_locktime |-> m.cet_locktime,
     refund_locktime |-> m.refund_locktime]

\* AcceptedContract::get_accept_contract_msg
get_accept_contract_msg(accepted_contract, adaptor_sigs) ==
    [accept_collateral |-> accepted_contract.accept_params.collateral,
     funding_pubkey |-> accepted_contract.accept_params.fund_pubkey,
     payout_spk |-> accepted_contract.accept_params.payout_script_pubkey,
     payout_serial_id |-> accepted_contract.accept_params.payout_serial_id,
     change_spk |-> accepted_contract.accept_params.change_script_pubkey,
     change_serial_id |-> accepted_contract.accept_params.change_serial_id,
     funding_inputs |-> accepted_contract.funding_inputs,
     cet_adaptor_signatures |-> to_cet_adaptor_signatures(adaptor_sigs),
     refund_signature |-> accepted_contract.accept_refund_signature]

\* SignedContract::get_sign_dlc
get_sign_dlc(signed_contract, adaptor_sigs) ==
    [cet_adaptor_signatures |-> to_cet_adaptor_signatures(adaptor_sigs),
     refund_signature |-> signed_contract.offer_refund_signature,
     funding_signatures |-> signed_contract.funding_signatures]

\* ------------------------------------------------------- phase transitions
\* offer_contract: the OfferedContract of the offering party and its message.
offer_contract(contract_input, refund_delay, wallet, now) ==
    IF ~validate(contract_input) THEN Err("InvalidParameters")
    ELSE LET pp == get_party_params(contract_input.offer_collateral, wallet)
         IN IF ~pp.ok THEN Err(pp.err)
            ELSE LET offered_contract ==
                        [is_offer_party |-> TRUE,
                         offer_params |-> pp.val.party_params,
                         contract_info |-> contract_input.contract_infos,
                         total_collateral |-> contract_input.total_collateral,
                         funding_inputs_info |-> pp.val.funding_inputs_info,
                         cet_locktime |-> now,
                         refund_locktime |-> now + refund_delay]
                 IN Ok([offered_contract |-> offered_contract,
                        offer_msg |-> to_offer_msg(offered_contract)])

RECURSIVE accept_later_cets_not_extended(_, _, _, _, _, _, _)
\* accept_later_contract_infos without cets.extend(tmp_cets).
accept_later_cets_not_extended(offered_contract, accept_params, adaptor_secret_key, script, input_value, k, acc) ==
    IF k >= Len(offered_contract.contract_info) THEN acc
    ELSE LET contract_info == At(offered_contract.contract_info, k)
             payouts == get_payouts(contract_info, offered_contract.total_collateral)
             tmp_cets == create_cets(acc.cet_input,
                            offered_contract.offer_params.payout_script_pubkey,
                            offered_contract.offer_params.payout_serial_id,
                            accept_params.payout_script_pubkey,
                            accept_params.payout_serial_id,
                            payouts, 0)
             r == get_adaptor_info(contract_info, offered_contract.total_collateral,
                                   adaptor_secret_key, script, input_value,
                                   tmp_cets, Len(acc.adaptor_sigs))
         IN accept_later_cets_not_extended(offered_contract, accept_params,
                adaptor_secret_key, script, input_value, k + 1,
                [cet_input |-> acc.cet_input,
                 cets |-> acc.cets,
                 adaptor_infos |-> Append(acc.adaptor_infos, r.info),
                 adaptor_sigs |-> acc.adaptor_sigs \o r.sigs])

RECURSIVE accept_later_start_at_zero(_, _, _, _, _, _, _)
\* accept_later_contract_infos with every block of adaptor signatures
\* indexed from 0 instead of from adaptor_sigs.len().
accept_later_start_at_zero(offered_contract, accept_params, adaptor_secret_key, script, input_value, k, acc) ==
    IF k >= Len(offered_contract.contract_info) THEN acc
    ELSE LET contract_info == At(offered_contract.contract_info, k)
             payouts == get_payouts(contract_info, offered_contract.total_collateral)
             tmp_cets == create_cets(acc.cet_input,
                            offered_contract.offer_params.payout_script_pubkey,
                            offered_contract.offer_params.payout_serial_id,
                            accept_params.payout_script_pubkey,
                            accept_params.payout_serial_id,
                            payouts, 0)
             r == get_adaptor_info(contract_info, offered_contract.total_collateral,
                                   adaptor_secret_key, script, input_value,
                                   tmp_cets, 0)
         IN accept_later_start_at_zero(offered_contract, accept_params,
                adaptor_secret_key, script, input_value, k + 1,
                [cet_input |-> acc.cet_input,
                 cets |-> acc.cets \o tmp_cets,
                 adaptor_infos |-> Append(acc.adaptor_infos, r.info),
                 adaptor_sigs |-> acc.adaptor_sigs \o r.sigs])

RECURSIVE accept_later_contract_infos(_, _, _, _, _, _, _)
\* for contract_info in offered_contract.contract_info.iter().skip(1): the
\* CETs of the contract-info, its adaptor info and signatures, appended to
\* those of the contract-infos before it (acc).
accept_later_contract_infos(offered_contract, accept_params, adaptor_secret_key, script, input_value, k, acc) ==
    IF k >= Len(offered_contract.contract_info) THEN acc
    ELSE LET contract_info == At(offered_contract.contract_info, k)
             payouts == get_payouts(contract_info, offered_contract.total_collateral)
             tmp_cets == create_cets(acc.cet_input,
                            offered_contract.offer_params.payout_script_pubkey,
                            offered_contract.offer_params.payout_serial_id,
                            accept_params.payout_script_pubkey,
                            accept_params.payout_serial_id,
                            payouts, 0)
             r == get_adaptor_info(contract_info, offered_contract.total_collateral,
                                   adaptor_secret_key, script, input_value,
                                   tmp_cets, Len(acc.adaptor_sigs))
         IN accept_later_contract_infos(offered_contract, accept_params,
                adaptor_secret_key, script, input_value, k + 1,
                [cet_input |-> acc.cet_input,
                 cets |-> acc.cets \o tmp_cets,
                 adaptor_infos |-> Append(acc.adaptor_infos, r.info),
                 adaptor_sigs |-> acc.adaptor_sigs \o r.sigs])

\* accept_contract_internal: the adaptor signatures over the CETs of every
\* contract-info, the refund signature and the AcceptedContract.
accept_contract_internal(offered_contract, accept_params, funding_inputs, adaptor_secret_key, input_value, input_script_pubkey, dlc_transactions) ==
    LET script == IF IsSome(input_script_pubkey) THEN Unwrap(input_script_pubkey)
                  ELSE dlc_transactions.funding_script_pubkey
        cet_input == At(dlc_transactions.cets, 0).input
        first == get_adaptor_info(At(offered_contract.contract_info, 0),
                                  offered_contract.total_collateral,
                                  adaptor_secret_key, script, input_value,
                                  dlc_transactions.cets, 0)
        all == accept_later_contract_infos(offered_contract, accept_params,
                    adaptor_secret_key, script, input_value, 1,
                    [cet_input |-> cet_input,
                     cets |-> dlc_transactions.cets,
                     adaptor_infos |-> <<first.info>>,
                     adaptor_sigs |-> first.sigs])
        refund_signature == get_raw_sig_for_tx_input(dlc_transactions.refund, 0,
                                script, input_value, adaptor_secret_key)
        accepted_contract ==
            [offered_contract |-> offered_contract,
             adaptor_infos |-> all.adaptor_infos,
             adaptor_signatures |-> None,
             accept_params |-> accept_params,
             funding_inputs |-> funding_inputs,
             dlc_transactions |->
                [fund |-> dlc_transactions.fund,
                 cets |-> all.cets,
                 refund |-> dlc_transactions.refund,
                 funding_script_pubkey |-> dlc_transactions.funding_script_pubkey],
             accept_refund_signature |-> refund_signature]
    IN Ok([accepted_contract |-> accepted_contract, adaptor_sigs |-> all.adaptor_sigs])

\* accept_contract storing the adaptor signatures it made in the
\* AcceptedContract it returns.
accept_contract_stores_own_sigs(offered_contract, wallet) ==
    LET total_collateral == offered_contract.total_collateral
        pp == get_party_params(total_collateral - offered_contract.offer_params.collateral, wallet)
    IN IF ~pp.ok THEN Err(pp.err)
       ELSE
       LET accept_params == pp.val.party_params
           txs == create_dlc_transactions(offered_contract.offer_params, accept_params,
                        get_payouts(At(offered_contract.contract_info, 0), total_collateral),
                        offered_contract.refund_locktime, 0,
                        offered_contract.cet_locktime)
       IN IF ~txs.ok THEN Err(txs.err)
          ELSE
          LET fund_output_value == get_fund_output_value(txs.val)
              r == accept_contract_internal(offered_contract, accept_params,
                        pp.val.funding_inputs_info, pp.val.fund_secret_key,
                        fund_output_value, None, txs.val)
          IN IF ~r.ok THEN Err(r.err)
             ELSE Ok([accepted_contract |-> [r.val.accepted_contract EXCEPT !.adaptor_signatures = Some(r.val.adaptor_sigs)],
                      accept_msg |-> get_accept_contract_msg(r.val.accepted_contract,
                                                             r.val.adaptor_sigs)])

\* accept_contract: the accepting party's AcceptedContract and AcceptDlc.
accept_contract(offered_contract, wallet) ==
    LET total_collateral == offered_contract.total_collateral
        pp == get_party_params(total_collateral - offered_contract.offer_params.collateral, wallet)
    IN IF ~pp.ok THEN Err(pp.err)
       ELSE
       LET accept_params == pp.val.party_params
           txs == create_dlc_transactions(offered_contract.offer_params, accept_params,
                        get_payouts(At(offered_contract.contract_info, 0), total_collateral),
                        offered_contract.refund_locktime, 0,
                        offered_contract.cet_locktime)
       IN IF ~txs.ok THEN Err(txs.err)
          ELSE
          LET fund_output_value == get_fund_output_value(txs.val)
              r == accept_contract_internal(offered_contract, accept_params,
                        pp.val.funding_inputs_info, pp.val.fund_secret_key,
                        fund_output_value, None, txs.val)
          IN IF ~r.ok THEN Err(r.err)
             ELSE Ok([accepted_contract |-> r.val.accepted_contract,
                      accept_msg |-> get_accept_contract_msg(r.val.accepted_contract,
                                                             r.val.adaptor_sigs)])

\* offer_input_serial_ids without input_serial_ids.sort_unstable().
offer_input_serial_ids_unsorted(offered_contract, accept_params) ==
    [i \in 1..Len(offered_contract.funding_inputs_info) |-> offered_contract.funding_inputs_info[i].input_serial_id]
        \o [i \in 1..Len(accept_params.inputs) |-> accept_params.inputs[i].serial_id]

\* The union of both parties' funding-input serial ids, ascending (the
\* offerer's view: its own funding inputs and the accept parameters' inputs).
offer_input_serial_ids(offered_contract, accept_params) ==
    sort_unstable([i \in 1..Len(offered_contract.funding_inputs_info) |-> offered_contract.funding_inputs_info[i].input_serial_id]
                  \o [i \in 1..Len(accept_params.inputs) |-> accept_params.inputs[i].serial_id])

\* funding_prevout without the look-up of the output: the prevout at
\* prev_tx_vout whatever the number of outputs of the previous transaction.
funding_prevout_any_vout(funding_input) ==
    LET tx == consensus_decode(funding_input.prev_tx)
        vout == funding_input.prev_tx_vout
    IN IF ~IsSome(tx) THEN Err("InvalidParameters")
       ELSE Ok([prev |-> funding_input.prev_tx.id, vout |-> vout])

\* The prevout a funding input spends: InvalidParameters when the previous
\* transaction does not decode or has no output at prev_tx_vout.
funding_prevout(funding_input) ==
    LET tx == consensus_decode(funding_input.prev_tx)
        vout == funding_input.prev_tx_vout
    IN IF ~IsSome(tx) THEN Err("InvalidParameters")
       ELSE IF vout >= Unwrap(tx) THEN Err("InvalidParameters")
       ELSE Ok([prev |-> funding_input.prev_tx.id, vout |-> vout])

RECURSIVE sign_offer_inputs(_, _, _, _, _)
\* The offerer signs each of its funding inputs in the fund transaction, at
\* the index of the input's serial id in the sorted serial ids, and collects
\* the witness of each: the fund transaction and the witnesses, or the first
\* error.  acc holds the fund transaction and the witnesses so far.
sign_offer_inputs(funding_inputs_info, input_serial_ids, signer, k, acc) ==
    IF k >= Len(funding_inputs_info) THEN Ok(acc)
    ELSE LET x == At(funding_inputs_info, k)
             input_index == Position(input_serial_ids, x.input_serial_id)
             tx_out == funding_prevout(x)
         IN IF ~IsSome(input_index) THEN Err("InvalidState")
            ELSE IF ~tx_out.ok THEN Err(tx_out.err)
            ELSE LET signed == sign_tx_input(signer, acc.fund, Unwrap(input_index), tx_out.val)
                 IN IF ~signed.ok THEN Err(signed.err)
                    ELSE sign_offer_inputs(funding_inputs_info, input_serial_ids, signer, k + 1,
                            [fund |-> signed.val,
                             witnesses |-> Append(acc.witnesses, At(signed.val.input, Unwrap(input_index)).witness)])

RECURSIVE verify_later_unchecked(_, _, _, _, _, _, _)
\* verify_later_contract_infos with the result of the verification of the
\* block dropped: the cursor advances over the block whatever it holds.
verify_later_unchecked(offered_contract, accept_params, funding_script_pubkey, input_value, cet_adaptor_signatures, k, acc) ==
    IF k >= Len(offered_contract.contract_info) THEN Ok(acc)
    ELSE LET contract_info == At(offered_contract.contract_info, k)
             payouts == get_payouts(contract_info, acc.total_collateral)
             tmp_cets == create_cets(acc.cet_input,
                            offered_contract.offer_params.payout_script_pubkey,
                            offered_contract.offer_params.payout_serial_id,
                            accept_params.payout_script_pubkey,
                            accept_params.payout_serial_id,
                            payouts, 0)
             info == RangeInfos(contract_info, acc.adaptor_index)
         IN verify_later_unchecked(offered_contract, accept_params,
                funding_script_pubkey, input_value, cet_adaptor_signatures, k + 1,
                [cet_input |-> acc.cet_input,
                 total_collateral |-> acc.total_collateral,
                 adaptor_index |-> acc.adaptor_index + Len(info),
                 cets |-> acc.cets \o tmp_cets,
                 adaptor_infos |-> Append(acc.adaptor_infos, info)])

RECURSIVE verify_later_contract_infos(_, _, _, _, _, _, _)
\* for contract_info in offered_contract.contract_info.iter().skip(1): the
\* CETs of the contract-info are rebuilt and its block of the accepter's
\* adaptor signatures verified from the cursor on; acc holds the cursor, the
\* CET list and the adaptor infos so far.  The first error ends the loop.
verify_later_contract_infos(offered_contract, accept_params, funding_script_pubkey, input_value, cet_adaptor_signatures, k, acc) ==
    IF k >= Len(offered_contract.contract_info) THEN Ok(acc)
    ELSE LET contract_info == At(offered_contract.contract_info, k)
             payouts == get_payouts(contract_info, acc.total_collateral)
             tmp_cets == create_cets(acc.cet_input,
                            offered_contract.offer_params.payout_script_pubkey,
                            offered_contract.offer_params.payout_serial_id,
                            accept_params.payout_script_pubkey,
                            accept_params.payout_serial_id,
                            payouts, 0)
             r == verify_and_get_adaptor_info(contract_info,
                            offered_contract.total_collateral,
                            accept_params.fund_pubkey, funding_script_pubkey,
                            input_value, tmp_cets, cet_adaptor_signatures,
                            acc.adaptor_index)
         IN IF ~r.ok THEN Err(r.err)
            ELSE verify_later_contract_infos(offered_contract, accept_params,
                    funding_script_pubkey, input_value, cet_adaptor_signatures, k + 1,
                    [cet_input |-> acc.cet_input,
                     total_collateral |-> acc.total_collateral,
                     adaptor_index |-> r.val[2],
                     cets |-> acc.cets \o tmp_cets,
                     adaptor_infos |-> Append(acc.adaptor_infos, r.val[1])])

\* verify_accepted_and_sign_contract_internal: verifies the refund signature
\* and the adaptor signatures of the accepting party, signs for the offering
\* party, and builds the SignedContract.  adaptor_index is the final value of
\* the cursor over the adaptor signatures.
verify_accepted_and_sign_contract_internal(offered_contract, accept_params, funding_inputs_info, refund_signature, cet_adaptor_signatures, input_value, adaptor_secret, signer, input_script_pubkey, counter_adaptor_pk, dlc_transactions, channel_id) ==
    LET funding_script_pubkey == dlc_transactions.funding_script_pubkey
        refund == dlc_transactions.refund
        script == IF IsSome(input_script_pubkey) THEN Unwrap(input_script_pubkey)
                  ELSE funding_script_pubkey
        counter_pk == IF IsSome(counter_adaptor_pk) THEN Unwrap(counter_adaptor_pk)
                      ELSE accept_params.fund_pubkey
        first == verify_and_get_adaptor_info(At(offered_contract.contract_info, 0),
                        offered_contract.total_collateral, counter_pk, script,
                        input_value, dlc_transactions.cets, cet_adaptor_signatures, 0)
        cet_input == At(dlc_transactions.cets, 0).input
        total_collateral == offered_contract.offer_params.collateral + accept_params.collateral
    IN
    IF ~verify_tx_input_sig(refund_signature, refund, 0, script, input_value, counter_pk)
    THEN Err("InvalidRefundSignature")
    ELSE IF ~first.ok THEN Err(first.err)
    ELSE
    LET verified == verify_later_contract_infos(offered_contract, accept_params,
                        funding_script_pubkey, input_value, cet_adaptor_signatures, 1,
                        [cet_input |-> cet_input,
                         total_collateral |-> total_collateral,
                         adaptor_index |-> first.val[2],
                         cets |-> dlc_transactions.cets,
                         adaptor_infos |-> <<first.val[1]>>])
    IN
    IF ~verified.ok THEN Err(verified.err)
    ELSE
    LET cets == verified.val.cets
        adaptor_infos == verified.val.adaptor_infos
        own_signatures ==
            Concat([k \in 1..Len(adaptor_infos) |->
                      get_adaptor_signatures(offered_contract.contract_info[k],
                                             adaptor_infos[k], adaptor_secret,
                                             script, input_value, cets)])
        input_serial_ids == offer_input_serial_ids(offered_contract, accept_params)
        signed == sign_offer_inputs(offered_contract.funding_inputs_info,
                                    input_serial_ids, signer, 0,
                                    [fund |-> dlc_transactions.fund, witnesses |-> <<>>])
    IN
    IF ~signed.ok THEN Err(signed.err)
    ELSE
    LET witnesses == signed.val.witnesses
        funding_signatures == [i \in 1..Len(witnesses) |-> witness_to_elements(witnesses[i])]
        offer_refund_signature == get_raw_sig_for_tx_input(refund, 0, script,
                                        input_value, adaptor_secret)
        accepted_contract ==
            [offered_contract |-> offered_contract,
             accept_params |-> accept_params,
             funding_inputs |-> funding_inputs_info,
             adaptor_infos |-> adaptor_infos,
             adaptor_signatures |-> Some(cet_adaptor_signatures),
             accept_refund_signature |-> refund_signature,
             dlc_transactions |->
                [fund |-> signed.val.fund,
                 cets |-> cets,
                 refund |-> refund,
                 funding_script_pubkey |-> funding_script_pubkey]]
        signed_contract ==
            [accepted_contract |-> accepted_contract,
             adaptor_signatures |-> None,
             offer_refund_signature |-> offer_refund_signature,
             funding_signatures |-> [funding_signatures |-> funding_signatures],
             channel_id |-> channel_id]
    IN Ok([signed_contract |-> signed_contract,
           own_signatures |-> own_signatures,
           adaptor_index |-> verified.val.adaptor_index])

\* accept_params_of_msg with the payout script taken from the change script
\* field of the message.
accept_params_payout_from_change(accept_msg) ==
    [fund_pubkey |-> accept_msg.funding_pubkey,
     change_script_pubkey |-> accept_msg.change_spk,
     change_serial_id |-> accept_msg.change_serial_id,
     payout_script_pubkey |-> accept_msg.change_spk,
     payout_serial_id |-> accept_msg.payout_serial_id,
     inputs |-> get_tx_input_infos(accept_msg.funding_inputs),
     input_amount |-> Len(accept_msg.funding_inputs),
     collateral |-> accept_msg.accept_collateral]

\* The PartyParams of the accepting party as the AcceptDlc message gives them.
accept_params_of_msg(accept_msg) ==
    [fund_pubkey |-> accept_msg.funding_pubkey,
     change_script_pubkey |-> accept_msg.change_spk,
     change_serial_id |-> accept_msg.change_serial_id,
     payout_script_pubkey |-> accept_msg.payout_spk,
     payout_serial_id |-> accept_msg.payout_serial_id,
     inputs |-> get_tx_input_infos(accept_msg.funding_inputs),
     input_amount |-> Len(accept_msg.funding_inputs),
     collateral |-> accept_msg.accept_collateral]

\* verify_accepted_and_sign_contract: rebuilds the accept parameters and the
\* transactions from the AcceptDlc message, verifies and signs; the
\* SignedContract of the offering party and its SignDlc message.
verify_accepted_and_sign_contract(offered_contract, accept_msg, signer) ==
    LET accept_params == accept_params_of_msg(accept_msg)
        cet_adaptor_signatures == from_cet_adaptor_signatures(accept_msg.cet_adaptor_signatures)
        total_collateral == offered_contract.total_collateral
        txs == create_dlc_transactions(offered_contract.offer_params, accept_params,
                    get_payouts(At(offered_contract.contract_info, 0), total_collateral),
                    offered_contract.refund_locktime, 0, offered_contract.cet_locktime)
    IN IF ~txs.ok THEN Err(txs.err)
       ELSE
       LET fund_output_value == get_fund_output_value(txs.val)
           fund_privkey == get_secret_key_for_pubkey(signer, offered_contract.offer_params.fund_pubkey)
       IN IF ~fund_privkey.ok THEN Err(fund_privkey.err)
          ELSE
          LET r == verify_accepted_and_sign_contract_internal(offered_contract,
                        accept_params, accept_msg.funding_inputs,
                        accept_msg.refund_signature, cet_adaptor_signatures,
                        fund_output_value, fund_privkey.val, signer, None, None,
                        txs.val, None)
          IN IF ~r.ok THEN Err(r.err)
             ELSE Ok([signed_contract |-> r.val.signed_contract,
                      signed_msg |-> get_sign_dlc(r.val.signed_contract, r.val.own_signatures),
                      adaptor_index |-> r.val.adaptor_index])

\* The union of both parties' funding-input serial ids, ascending (the
\* accepter's view: the funding inputs of the offer and its own).
accept_input_serials(accepted_contract) ==
    LET all == accepted_contract.offered_contract.funding_inputs_info \o accepted_contract.funding_inputs
    IN sort_unstable([i \in 1..Len(all) |-> all[i].input_serial_id])

RECURSIVE verify_adaptor_infos(_, _, _, _, _, _, _)
\* for (adaptor_info, contract_info) in adaptor_infos.zip(contract_info):
\* each verify_adaptor_info starts where the previous one ended; the final
\* adaptor_sig_start, or the first error.
verify_adaptor_infos(accepted_contract, counter_adaptor_pk, script, input_value, cet_adaptor_signatures, k, adaptor_sig_start) ==
    LET offered_contract == accepted_contract.offered_contract
        n == IF Len(accepted_contract.adaptor_infos) <= Len(offered_contract.contract_info)
             THEN Len(accepted_contract.adaptor_infos)
             ELSE Len(offered_contract.contract_info)
    IN IF k >= n THEN Ok(adaptor_sig_start)
       ELSE LET r == verify_adaptor_info(At(offered_contract.contract_info, k),
                        counter_adaptor_pk, script, input_value,
                        accepted_contract.dlc_transactions.cets,
                        cet_adaptor_signatures, adaptor_sig_start,
                        At(accepted_contract.adaptor_infos, k))
            IN IF ~r.ok THEN Err(r.err)
               ELSE verify_adaptor_infos(accepted_contract, counter_adaptor_pk, script,
                        input_value, cet_adaptor_signatures, k + 1, r.val)

RECURSIVE install_offer_witnesses_appending(_, _, _, _, _)
\* install_offer_witnesses pushing the elements of the k-th signature onto
\* the witness the input has, in place of setting the witness.
install_offer_witnesses_appending(funding_inputs_info, funding_signatures, input_serials, k, fund_tx) ==
    IF k >= Len(funding_inputs_info) \/ k >= Len(funding_signatures) THEN Ok(fund_tx)
    ELSE LET input_index == Position(input_serials, At(funding_inputs_info, k).input_serial_id)
         IN IF ~IsSome(input_index) THEN Err("InvalidState")
            ELSE install_offer_witnesses_appending(funding_inputs_info, funding_signatures,
                    input_serials, k + 1,
                    [fund_tx EXCEPT !.input[Unwrap(input_index) + 1].witness =
                        @ \o witness_from_elements(At(funding_signatures, k).witness_elements)])

RECURSIVE install_offer_witnesses(_, _, _, _, _)
\* for (funding_input, funding_signatures) in funding_inputs_info.zip(
\* funding_signatures): the witness of the k-th signature goes to the index
\* of the k-th offer funding input's serial id; the zip ends with the
\* shorter of the two lists.
install_offer_witnesses(funding_inputs_info, funding_signatures, input_serials, k, fund_tx) ==
    IF k >= Len(funding_inputs_info) \/ k >= Len(funding_signatures) THEN Ok(fund_tx)
    ELSE LET input_index == Position(input_serials, At(funding_inputs_info, k).input_serial_id)
         IN IF ~IsSome(input_index) THEN Err("InvalidState")
            ELSE install_offer_witnesses(funding_inputs_info, funding_signatures,
                    input_serials, k + 1,
                    [fund_tx EXCEPT !.input[Unwrap(input_index) + 1].witness =
                        witness_from_elements(At(funding_signatures, k).witness_elements)])

RECURSIVE sign_accept_inputs(_, _, _, _, _)
\* for funding_input_info in &accepted_contract.funding_inputs: the accepter
\* signs each of its funding inputs at the index of its serial id.
sign_accept_inputs(funding_inputs, input_serials, signer, k, fund_tx) ==
    IF k >= Len(funding_inputs) THEN Ok(fund_tx)
    ELSE LET x == At(funding_inputs, k)
             input_index == Position(input_serials, x.input_serial_id)
             tx_out == funding_prevout(x)
         IN IF ~IsSome(input_index) THEN Err("InvalidState")
            ELSE IF ~tx_out.ok THEN Err(tx_out.err)
            ELSE LET signed == sign_tx_input(signer, fund_tx, Unwrap(input_index), tx_out.val)
                 IN IF ~signed.ok THEN Err(signed.err)
                    ELSE sign_accept_inputs(funding_inputs, input_serials, signer, k + 1, signed.val)

\* verify_signed_contract_internal with the funding inputs signed first and
\* the signatures of the offering party verified after.
verify_signed_contract_internal_sign_first(accepted_contract, refund_signature, cet_adaptor_signatures, funding_signatures, input_value, input_script_pubkey, counter_adaptor_pk, signer, channel_id) ==
    LET offered_contract == accepted_contract.offered_contract
        script == IF IsSome(input_script_pubkey) THEN Unwrap(input_script_pubkey)
                  ELSE accepted_contract.dlc_transactions.funding_script_pubkey
        counter_pk == IF IsSome(counter_adaptor_pk) THEN Unwrap(counter_adaptor_pk)
                      ELSE offered_contract.offer_params.fund_pubkey
        input_serials == accept_input_serials(accepted_contract)
        installed == install_offer_witnesses(offered_contract.funding_inputs_info,
                        funding_signatures.funding_signatures, input_serials, 0,
                        accepted_contract.dlc_transactions.fund)
    IN
    IF ~installed.ok THEN Err(installed.err)
    ELSE
    LET signed == sign_accept_inputs(accepted_contract.funding_inputs, input_serials,
                                     signer, 0, installed.val)
    IN
    IF ~signed.ok THEN Err(signed.err)
    ELSE IF ~verify_tx_input_sig(refund_signature, accepted_contract.dlc_transactions.refund, 0, script, input_value, counter_pk)
    THEN Err("InvalidRefundSignature")
    ELSE
    LET verified == verify_adaptor_infos(accepted_contract, counter_pk, script,
                        input_value, cet_adaptor_signatures, 0, 0)
    IN
    IF ~verified.ok THEN Err(verified.err)
    ELSE Ok([signed_contract |->
                [accepted_contract |-> accepted_contract,
                 adaptor_signatures |-> Some(cet_adaptor_signatures),
                 offer_refund_signature |-> refund_signature,
                 funding_signatures |-> funding_signatures,
                 channel_id |-> channel_id],
             fund_tx |-> signed.val,
             adaptor_sig_start |-> verified.val])

\* verify_signed_contract_internal: verifies the refund signature and the
\* adaptor signatures of the offering party, installs its funding witnesses,
\* signs the accepter's funding inputs; the SignedContract and the fund
\* transaction.  adaptor_sig_start is the final value of the cursor.
verify_signed_contract_internal(accepted_contract, refund_signature, cet_adaptor_signatures, funding_signatures, input_value, input_script_pubkey, counter_adaptor_pk, signer, channel_id) ==
    LET offered_contract == accepted_contract.offered_contract
        script == IF IsSome(input_script_pubkey) THEN Unwrap(input_script_pubkey)
                  ELSE accepted_contract.dlc_transactions.funding_script_pubkey
        counter_pk == IF IsSome(counter_adaptor_pk) THEN Unwrap(counter_adaptor_pk)
                      ELSE offered_contract.offer_params.fund_pubkey
    IN
    IF ~verify_tx_input_sig(refund_signature, accepted_contract.dlc_transactions.refund, 0, script, input_value, counter_pk)
    THEN Err("InvalidRefundSignature")
    ELSE
    LET verified == verify_adaptor_infos(accepted_contract, counter_pk, script,
                        input_value, cet_adaptor_signatures, 0, 0)
    IN
    IF ~verified.ok THEN Err(verified.err)
    ELSE
    LET input_serials == accept_input_serials(accepted_contract)
        installed == install_offer_witnesses(offered_contract.funding_inputs_info,
                        funding_signatures.funding_signatures, input_serials, 0,
                        accepted_contract.dlc_transactions.fund)
    IN
    IF ~installed.ok THEN Err(installed.err)
    ELSE
    LET signed == sign_accept_inputs(accepted_contract.funding_inputs, input_serials,
                                     signer, 0, installed.val)
    IN
    IF ~signed.ok THEN Err(signed.err)
    ELSE Ok([signed_contract |->
                [accepted_contract |-> accepted_contract,
                 adaptor_signatures |-> Some(cet_adaptor_signatures),
                 offer_refund_signature |-> refund_signature,
                 funding_signatures |-> funding_signatures,
                 channel_id |-> channel_id],
             fund_tx |-> signed.val,
             adaptor_sig_start |-> verified.val])

\* verify_signed_contract: the accepting party's SignedContract and the
\* signed fund transaction, from its AcceptedContract and the SignDlc message.
verify_signed_contract(accepted_contract, sign_msg, signer) ==
    verify_signed_contract_internal(accepted_contract, sign_msg.refund_signature,
        from_cet_adaptor_signatures(sign_msg.cet_adaptor_signatures),
        sign_msg.funding_signatures,
        get_fund_output_value(accepted_contract.dlc_transactions),
        None, None, signer, None)

\* ----------------------------------------------------------------- closure
\* An oracle attestation: the oracle event that attests and the outcome (from
\* 0) it attests to.
Attestation(contract_info, outcome) == [oracle |-> contract_info.oracle, outcome |-> outcome]

\* utils::get_range_info_and_oracle_sigs: the leaf of the AdaptorInfo for the
\* attested outcome and the oracle signatures, which open the adaptor point
\* of that outcome; an attestation of another event or of no leaf is an error.
get_range_info_and_oracle_sigs(contract_info, adaptor_info, attestations) ==
    IF attestations.oracle # contract_info.oracle \/ attestations.outcome >= Len(adaptor_info)
    THEN Err("InvalidState")
    ELSE Ok([range_info |-> At(adaptor_info, attestations.outcome),
             sigs |-> AdaptorPoint(contract_info, attestations.outcome)])

\* EcdsaAdaptorSignature::decrypt: the signature the adaptor signature hides,
\* by the key, over the transaction and for the script and value it was made
\* for; opened with the secret of another point it is no valid signature.
Decrypt(adaptor_signature, oracle_signatures) ==
    [key |-> IF adaptor_signature.point = oracle_signatures THEN adaptor_signature.key ELSE "invalid",
     tx |-> adaptor_signature.tx,
     index |-> 0,
     script |-> adaptor_signature.script,
     value |-> adaptor_signature.value]

\* A CET or refund transaction with the witness of its one input set.
WithWitness(tx, witness) ==
    [input |-> [previous_output |-> tx.input.previous_output, witness |-> witness],
     lock_time |-> tx.lock_time,
     output |-> tx.output]

\* A signed CET or refund transaction without its witness.
StripWitness(tx) ==
    [input |-> [previous_output |-> tx.input.previous_output],
     lock_time |-> tx.lock_time,
     output |-> tx.output]

\* The witness of the 2-of-2 fund output: the signature of the signing party,
\* the signature of the other party, and the script.
MultiSigWitness(own_sig, other_sig, other_pk, script_pubkey) ==
    [own |-> own_sig, other |-> other_sig, other_pk |-> other_pk, script |-> script_pubkey]

\* dlc::sign_cet: decrypts the adaptor signature of the other party with the
\* oracle signatures, signs the CET with the own fund key and sets the
\* witness of the CET's input.
sign_cet(cet, adaptor_signature, oracle_signatures, funding_sk, other_pk, funding_script_pubkey, fund_output_value) ==
    Ok(WithWitness(cet,
        MultiSigWitness(get_raw_sig_for_tx_input(cet, 0, funding_script_pubkey, fund_output_value, funding_sk),
                        Decrypt(adaptor_signature, oracle_signatures),
                        other_pk, funding_script_pubkey)))

\* dlc::util::sign_multi_sig_input: signs the input with the own key and sets
\* its witness from the own signature and the signature of the other party.
sign_multi_sig_input(tx, other_sig, other_pk, sk, script_pubkey, value, input_index) ==
    Ok(WithWitness(tx,
        MultiSigWitness(get_raw_sig_for_tx_input(tx, input_index, script_pubkey, value, sk),
                        other_sig, other_pk, script_pubkey)))

\* cet_signing_parties with the adaptor signature lists of the two branches
\* exchanged: each party reads the field that holds its own signatures.
cet_signing_parties_own_list(contract) ==
    LET offered_contract == contract.accepted_contract.offered_contract
    IN IF offered_contract.is_offer_party
       THEN [adaptor_sigs |-> contract.adaptor_signatures,
             fund_pubkey |-> offered_contract.offer_params.fund_pubkey,
             other_pubkey |-> contract.accepted_contract.accept_params.fund_pubkey]
       ELSE [adaptor_sigs |-> contract.accepted_contract.adaptor_signatures,
             fund_pubkey |-> contract.accepted_contract.accept_params.fund_pubkey,
             other_pubkey |-> offered_contract.offer_params.fund_pubkey]

\* get_signed_cet, the selection by is_offer_party: the adaptor signatures to
\* close with, the fund pubkey of the caller and that of the other party.
cet_signing_parties(contract) ==
    LET offered_contract == contract.accepted_contract.offered_contract
    IN IF offered_contract.is_offer_party
       THEN [adaptor_sigs |-> contract.accepted_contract.adaptor_signatures,
             fund_pubkey |-> offered_contract.offer_params.fund_pubkey,
             other_pubkey |-> contract.accepted_contract.accept_params.fund_pubkey]
       ELSE [adaptor_sigs |-> contract.adaptor_signatures,
             fund_pubkey |-> contract.accepted_contract.accept_params.fund_pubkey,
             other_pubkey |-> offered_contract.offer_params.fund_pubkey]

\* get_signed_cet: the CET at range_info.cet_index of the stored CET list,
\* signed with the caller's fund key and the other party's adaptor signature
\* at range_info.adaptor_index.  An index out of range and the unwrap of an
\* absent signature list panic.
get_signed_cet(contract, contract_info, adaptor_info, attestations, signer) ==
    LET r == get_range_info_and_oracle_sigs(contract_info, adaptor_info, attestations)
        cets == contract.accepted_contract.dlc_transactions.cets
        parties == cet_signing_parties(contract)
    IN IF ~r.ok THEN Err(r.err)
       ELSE IF r.val.range_info.cet_index >= Len(cets) THEN Err("panic")
       ELSE IF ~IsSome(parties.adaptor_sigs) THEN Err("panic")
       ELSE
       LET funding_sk == get_secret_key_for_pubkey(signer, parties.fund_pubkey)
       IN IF ~funding_sk.ok THEN Err(funding_sk.err)
          ELSE IF r.val.range_info.adaptor_index >= Len(Unwrap(parties.adaptor_sigs)) THEN Err("panic")
          ELSE sign_cet(At(cets, r.val.range_info.cet_index),
                        At(Unwrap(parties.adaptor_sigs), r.val.range_info.adaptor_index),
                        r.val.sigs, funding_sk.val, parties.other_pubkey,
                        contract.accepted_contract.dlc_transactions.funding_script_pubkey,
                        get_fund_output_value(contract.accepted_contract.dlc_transactions))

\* refund_signing_parties with the refund signatures of the two branches
\* exchanged: each party combines its key with its own stored signature.
refund_signing_parties_own_sig(contract) ==
    LET accepted_contract == contract.accepted_contract
        offered_contract == accepted_contract.offered_contract
    IN IF offered_contract.is_offer_party
       THEN [fund_pubkey |-> offered_contract.offer_params.fund_pubkey,
             other_fund_pubkey |-> accepted_contract.accept_params.fund_pubkey,
             other_sig |-> contract.offer_refund_signature]
       ELSE [fund_pubkey |-> accepted_contract.accept_params.fund_pubkey,
             other_fund_pubkey |-> offered_contract.offer_params.fund_pubkey,
             other_sig |-> accepted_contract.accept_refund_signature]

\* get_signed_refund, the selection by is_offer_party: the fund pubkey of the
\* caller, that of the other party and the stored refund signature of the
\* other party.
refund_signing_parties(contract) ==
    LET accepted_contract == contract.accepted_contract
        offered_contract == accepted_contract.offered_contract
    IN IF offered_contract.is_offer_party
       THEN [fund_pubkey |-> offered_contract.offer_params.fund_pubkey,
             other_fund_pubkey |-> accepted_contract.accept_params.fund_pubkey,
             other_sig |-> accepted_contract.accept_refund_signature]
       ELSE [fund_pubkey |-> accepted_contract.accept_params.fund_pubkey,
             other_fund_pubkey |-> offered_contract.offer_params.fund_pubkey,
             other_sig |-> contract.offer_refund_signature]

\* get_signed_refund signing a copy of the refund transaction whose lock time
\* is reset.
get_signed_refund_no_locktime(contract, signer) ==
    LET accepted_contract == contract.accepted_contract
        parties == refund_signing_parties(contract)
        fund_priv_key == get_secret_key_for_pubkey(signer, parties.fund_pubkey)
    IN IF ~fund_priv_key.ok THEN Err(fund_priv_key.err)
       ELSE sign_multi_sig_input([accepted_contract.dlc_transactions.refund EXCEPT !.lock_time = 0],
                                 parties.other_sig, parties.other_fund_pubkey,
                                 fund_priv_key.val,
                                 accepted_contract.dlc_transactions.funding_script_pubkey,
                                 get_fund_output_value(accepted_contract.dlc_transactions), 0)

\* get_signed_refund: a copy of the stored refund transaction, its input
\* signed with the caller's fund key and the other party's refund signature.
get_signed_refund(contract, signer) ==
    LET accepted_contract == contract.accepted_contract
        parties == refund_signing_parties(contract)
        fund_priv_key == get_secret_key_for_pubkey(signer, parties.fund_pubkey)
    IN IF ~fund_priv_key.ok THEN Err(fund_priv_key.err)
       ELSE sign_multi_sig_input(accepted_contract.dlc_transactions.refund,
                                 parties.other_sig, parties.other_fund_pubkey,
                                 fund_priv_key.val,
                                 accepted_contract.dlc_transactions.funding_script_pubkey,
                                 get_fund_output_value(accepted_contract.dlc_transactions), 0)

\* ---------------------------------------------------------- environment
\* The contract-info lists of the contract inputs: every split of at most
\* MaxCets outcomes over contract-infos, the k-th one on the k-th oracle event.
ContractInfoLists ==
    LET counts == {c \in UNION {[1..n -> 1..MaxCets] : n \in 1..MaxCets} : SumSeq(c) <= MaxCets}
    IN {[k \in 1..Len(c) |-> [oracle |-> k, outcomes |-> c[k]]] : c \in counts}

\* Serial-id lists a wallet may give its funding inputs: n distinct serial ids
\* in any order.
SerialLists(n) == {l \in [1..n -> Serials] : \A i, j \in 1..n : i # j => l[i] # l[j]}

\* The funding inputs of a wallet for a serial-id list.
Utxos(party, serials) ==
    [i \in 1..Len(serials) |-> FundingInput(serials[i], <<party, i>>, "ok")]

\* The wallets of the two parties: each at least one funding input, both
\* together at most MaxFundingInputs; the two parties draw their serial ids
\* independently of each other.
WalletPairs ==
    {[offer |-> [fund_key |-> OfferKey, utxos |-> Utxos(OfferKey, so),
                 payout_serial_id |-> 1, change_serial_id |-> 3, fails |-> FALSE],
      accept |-> [fund_key |-> AcceptKey, utxos |-> Utxos(AcceptKey, sa),
                  payout_serial_id |-> 2, change_serial_id |-> 4, fails |-> FALSE]] :
        so \in UNION {SerialLists(n) : n \in 1..(MaxFundingInputs - 1)},
        sa \in UNION {SerialLists(n) : n \in 1..(MaxFundingInputs - 1)}}

\* The wallets of the spec's interleave example: offer serial ids 7, 2 and
\* accept serial id 5.
InterleaveWallets(w) ==
    /\ [i \in 1..Len(w.offer.utxos) |-> w.offer.utxos[i].input_serial_id] = <<7, 2>>
    /\ [i \in 1..Len(w.accept.utxos) |-> w.accept.utxos[i].input_serial_id] = <<5>>

Outcomes(cis) == SumSeq([k \in 1..Len(cis) |-> cis[k].outcomes])

\* The environments of a run: every contract-info list with the interleave
\* wallets, and every wallet pair with the contract-info lists of at most two
\* outcomes.
Environments ==
    {[contract_input |-> [offer_collateral |-> 1, total_collateral |-> 2,
                          contract_infos |-> cis],
      refund_delay |-> 5, now |-> 10, wallets |-> w] :
        cis \in ContractInfoLists,
        w \in {x \in WalletPairs : Len(x.offer.utxos) + Len(x.accept.utxos) <= MaxFundingInputs}}

\* The interleave wallets with the funding input at position i of one party
\* replaced by one whose previous transaction does not decode ("undecodable")
\* or has no output at prev_tx_vout ("no_output").
BadInputWallets ==
    LET w == CHOOSE x \in WalletPairs : InterleaveWallets(x)
        Bad(u, i, kind) == [u EXCEPT ![i] = FundingInput(u[i].input_serial_id, u[i].prev_tx.id, kind)]
    IN {[w EXCEPT !.offer.utxos = Bad(@, i, kind)] : i \in 1..2, kind \in {"undecodable", "no_output"}}
       \cup {[w EXCEPT !.accept.utxos = Bad(@, 1, kind)] : kind \in {"undecodable", "no_output"}}

\* The environments of a whole life cycle: every contract-info list with the
\* interleave wallets, and the contract-info lists of at most two outcomes
\* with the wallets that hold a bad funding input.
LifeCycleEnvironments ==
    {e \in Environments : InterleaveWallets(e.wallets)}
    \cup {[contract_input |-> [offer_collateral |-> 1, total_collateral |-> 2, contract_infos |-> cis],
           refund_delay |-> 5, now |-> 10, wallets |-> w] :
            cis \in {c \in ContractInfoLists : Outcomes(c) <= 2}, w \in BadInputWallets}

\* The signers of the two parties; a signer may fail at either of its calls.
SignerFaults == {"none", "get_secret_key", "sign_tx_input"}
Signer(key, f) == [key |-> key, fails |-> f]

\* ------------------------------------------------------------------ state
VARIABLES
    env,        \* the contract input and the wallets of the two parties
    oOffered,   \* Option: the offerer's OfferedContract
    oSigned,    \* Option: the offerer's SignedContract
    aAccepted,  \* Option: the accepter's AcceptedContract
    aSigned,    \* Option: the accepter's SignedContract
    aFundTx,    \* Option: the fund transaction verify_signed_contract returned
    offerMsg,   \* Option: the OfferDlc message in flight
    acceptMsg,  \* Option: the AcceptDlc message in flight
    signMsg,    \* Option: the SignDlc message in flight
    res,        \* per transition: "" before it ran, else "ok" or its error
    fault,      \* per transition: the collaborator fault of its last run
    cursor,     \* per verification: the final adaptor-signature cursor, -1 before
    tamper,     \* what the network did to the AcceptDlc and SignDlc messages
    ran,        \* per verification: what had been done to the message it last ran on
    closed,     \* the last call of get_signed_cet or get_signed_refund and its result
    internal,   \* "" or the outcome of the internal transitions run with overrides
    again       \* what a second call of verify_signed_contract returned

vars == <<env, oOffered, oSigned, aAccepted, aSigned, aFundTx, offerMsg, acceptMsg, signMsg, res, fault, cursor, tamper, ran, closed, internal, again>>

Untouched == [kind |-> "none", index |-> -1]

\* No closing transaction was asked for yet.
NotClosed == [party |-> "none", kind |-> "none", k |-> 0, outcome |-> 0, fault |-> "none", res |-> "", tx |-> None]

\* verify_signed_contract was not called a second time yet.
NotAgain == [res |-> "", cursor |-> -1, signed_contract |-> None, fund_tx |-> None]

\* The state of both parties before offer_contract.
Fresh ==
    /\ oOffered = None
    /\ oSigned = None
    /\ aAccepted = None
    /\ aSigned = None
    /\ aFundTx = None
    /\ offerMsg = None
    /\ acceptMsg = None
    /\ signMsg = None
    /\ res = [offer |-> "", accept |-> "", verify_accept |-> "", verify_sign |-> ""]
    /\ fault = [offer |-> "none", accept |-> "none", verify_accept |-> "none", verify_sign |-> "none"]
    /\ cursor = [verify_accept |-> -1, verify_sign |-> -1]
    /\ tamper = [accept |-> Untouched, sign |-> Untouched]
    /\ ran = [accept |-> Untouched, sign |-> Untouched]
    /\ closed = NotClosed
    /\ internal = ""
    /\ again = NotAgain

Init ==
    /\ env \in {e \in Environments : Outcomes(e.contract_input.contract_infos) <= 2 \/ InterleaveWallets(e.wallets)}
    /\ Fresh

Outcome(r) == IF r.ok THEN "ok" ELSE r.err

\* ------------------------------------------------------------ transitions
\* The offerer calls offer_contract; its wallet may fail.
OfferContract ==
    /\ oOffered = None
    /\ \E fails \in BOOLEAN :
        LET r == offer_contract(env.contract_input, env.refund_delay,
                                [env.wallets.offer EXCEPT !.fails = fails], env.now)
        IN /\ res' = [res EXCEPT !.offer = Outcome(r)]
           /\ fault' = [fault EXCEPT !.offer = IF fails THEN "wallet" ELSE "none"]
           /\ oOffered' = IF r.ok THEN Some(r.val.offered_contract) ELSE oOffered
           /\ offerMsg' = IF r.ok THEN Some(r.val.offer_msg) ELSE offerMsg
    /\ UNCHANGED <<env, oSigned, aAccepted, aSigned, aFundTx, acceptMsg, signMsg, cursor, tamper, ran, closed, internal, again>>

\* The accepter calls accept_contract on the offer it received.
AcceptContract ==
    /\ IsSome(offerMsg)
    /\ aAccepted = None
    /\ \E fails \in BOOLEAN :
        LET r == accept_contract(from_offer_msg(Unwrap(offerMsg)),
                                 [env.wallets.accept EXCEPT !.fails = fails])
        IN /\ res' = [res EXCEPT !.accept = Outcome(r)]
           /\ fault' = [fault EXCEPT !.accept = IF fails THEN "wallet" ELSE "none"]
           /\ aAccepted' = IF r.ok THEN Some(r.val.accepted_contract) ELSE aAccepted
           /\ acceptMsg' = IF r.ok THEN Some(r.val.accept_msg) ELSE acceptMsg
    /\ UNCHANGED <<env, oOffered, oSigned, aSigned, aFundTx, offerMsg, signMsg, cursor, tamper, ran, closed, internal, again>>

\* VerifyAcceptedAndSignContract giving up the OfferedContract when it
\* succeeds: the offering party's contract is back to where no offer was made.
VerifyAcceptedAndSignContract_drops_offer ==
    /\ IsSome(oOffered)
    /\ oSigned = None
    /\ IsSome(acceptMsg)
    /\ \E f \in SignerFaults :
        LET r == verify_accepted_and_sign_contract(Unwrap(oOffered), Unwrap(acceptMsg),
                                                   Signer(OfferKey, f))
        IN /\ res' = [res EXCEPT !.verify_accept = Outcome(r)]
           /\ fault' = [fault EXCEPT !.verify_accept = f]
           /\ ran' = [ran EXCEPT !.accept = tamper.accept]
           /\ oSigned' = IF r.ok THEN Some(r.val.signed_contract) ELSE oSigned
           /\ oOffered' = IF r.ok THEN None ELSE oOffered
           /\ signMsg' = IF r.ok THEN Some(r.val.signed_msg) ELSE signMsg
           /\ cursor' = IF r.ok THEN [cursor EXCEPT !.verify_accept = r.val.adaptor_index]
                        ELSE cursor
    /\ UNCHANGED <<env, aAccepted, aSigned, aFundTx, offerMsg, acceptMsg, tamper, closed, internal, again>>

\* The offerer calls verify_accepted_and_sign_contract on the AcceptDlc
\* message that reached it.
VerifyAcceptedAndSignContract ==
    /\ IsSome(oOffered)
    /\ oSigned = None
    /\ IsSome(acceptMsg)
    /\ \E f \in SignerFaults :
        LET r == verify_accepted_and_sign_contract(Unwrap(oOffered), Unwrap(acceptMsg),
                                                   Signer(OfferKey, f))
        IN /\ res' = [res EXCEPT !.verify_accept = Outcome(r)]
           /\ fault' = [fault EXCEPT !.verify_accept = f]
           /\ ran' = [ran EXCEPT !.accept = tamper.accept]
           /\ oSigned' = IF r.ok THEN Some(r.val.signed_contract) ELSE oSigned
           /\ signMsg' = IF r.ok THEN Some(r.val.signed_msg) ELSE signMsg
           /\ cursor' = IF r.ok THEN [cursor EXCEPT !.verify_accept = r.val.adaptor_index]
                        ELSE cursor
    /\ UNCHANGED <<env, oOffered, aAccepted, aSigned, aFundTx, offerMsg, acceptMsg, tamper, closed, internal, again>>

\* VerifySignedContract with the fund transaction given back also when the
\* call fails: the accepting party keeps the copy it was signing.
VerifySignedContract_keeps_fund_tx ==
    /\ IsSome(aAccepted)
    /\ aSigned = None
    /\ IsSome(signMsg)
    /\ \E f \in SignerFaults :
        LET r == verify_signed_contract(Unwrap(aAccepted), Unwrap(signMsg),
                                        Signer(AcceptKey, f))
        IN /\ res' = [res EXCEPT !.verify_sign = Outcome(r)]
           /\ fault' = [fault EXCEPT !.verify_sign = f]
           /\ ran' = [ran EXCEPT !.sign = tamper.sign]
           /\ aSigned' = IF r.ok THEN Some(r.val.signed_contract) ELSE aSigned
           /\ aFundTx' = IF r.ok THEN Some(r.val.fund_tx)
                         ELSE Some(Unwrap(aAccepted).dlc_transactions.fund)
           /\ cursor' = IF r.ok THEN [cursor EXCEPT !.verify_sign = r.val.adaptor_sig_start]
                        ELSE cursor
    /\ UNCHANGED <<env, oOffered, oSigned, aAccepted, offerMsg, acceptMsg, signMsg, tamper, closed, internal, again>>

\* The accepter calls verify_signed_contract on the SignDlc message that
\* reached it.
VerifySignedContract ==
    /\ IsSome(aAccepted)
    /\ aSigned = None
    /\ IsSome(signMsg)
    /\ \E f \in SignerFaults :
        LET r == verify_signed_contract(Unwrap(aAccepted), Unwrap(signMsg),
                                        Signer(AcceptKey, f))
        IN /\ res' = [res EXCEPT !.verify_sign = Outcome(r)]
           /\ fault' = [fault EXCEPT !.verify_sign = f]
           /\ ran' = [ran EXCEPT !.sign = tamper.sign]
           /\ aSigned' = IF r.ok THEN Some(r.val.signed_contract) ELSE aSigned
           /\ aFundTx' = IF r.ok THEN Some(r.val.fund_tx) ELSE aFundTx
           /\ cursor' = IF r.ok THEN [cursor EXCEPT !.verify_sign = r.val.adaptor_sig_start]
                        ELSE cursor
    /\ UNCHANGED <<env, oOffered, oSigned, aAccepted, offerMsg, acceptMsg, signMsg, tamper, closed, internal, again>>

\* --------------------------------------------------------------- network
\* A signature that verifies under no key.
Invalid(sig) == [sig EXCEPT !.key = "invalid"]

AdaptorSigsOf(msg) == msg.cet_adaptor_signatures.ecdsa_adaptor_signatures

WithAdaptorSigs(msg, sigs) == [msg EXCEPT !.cet_adaptor_signatures.ecdsa_adaptor_signatures = sigs]

\* The message with the adaptor signature at index i (from 0) made invalid.
FlipAdaptorSig(msg, i) ==
    WithAdaptorSigs(msg, [AdaptorSigsOf(msg) EXCEPT ![i + 1].signature = Invalid(@)])

\* The message with one more adaptor signature after the last one.
ExtraAdaptorSig(msg) ==
    WithAdaptorSigs(msg, Append(AdaptorSigsOf(msg),
                                [signature |-> Invalid(AdaptorSigsOf(msg)[1].signature)]))

\* The AcceptDlc message of an accepting party that claims collateral c: its
\* signatures are made over the transactions the offering party builds for c.
dishonest_accept_msg(offered_contract, wallet, c) ==
    LET pp == get_party_params(c, wallet).val
        txs == create_dlc_transactions(offered_contract.offer_params, pp.party_params,
                    get_payouts(At(offered_contract.contract_info, 0), offered_contract.total_collateral),
                    offered_contract.refund_locktime, 0, offered_contract.cet_locktime).val
        r == accept_contract_internal(
                [offered_contract EXCEPT !.total_collateral = offered_contract.offer_params.collateral + c],
                pp.party_params, pp.funding_inputs_info, pp.fund_secret_key,
                get_fund_output_value(txs), None, txs).val
    IN get_accept_contract_msg(r.accepted_contract, r.adaptor_sigs)

AcceptInFlight == IsSome(acceptMsg) /\ oSigned = None /\ tamper.accept = Untouched

\* One adaptor signature of the AcceptDlc message is altered on the way.
TamperAcceptAdaptorSig ==
    /\ AcceptInFlight
    /\ \E i \in 0..(Len(AdaptorSigsOf(Unwrap(acceptMsg))) - 1) :
        /\ acceptMsg' = Some(FlipAdaptorSig(Unwrap(acceptMsg), i))
        /\ tamper' = [tamper EXCEPT !.accept = [kind |-> "adaptor_sig", index |-> i]]
    /\ UNCHANGED <<env, oOffered, oSigned, aAccepted, aSigned, aFundTx, offerMsg, signMsg, res, fault, cursor, ran, closed, internal, again>>

\* The AcceptDlc message arrives with an adaptor signature too many.
TamperAcceptExtraSig ==
    /\ AcceptInFlight
    /\ acceptMsg' = Some(ExtraAdaptorSig(Unwrap(acceptMsg)))
    /\ tamper' = [tamper EXCEPT !.accept = [kind |-> "extra_sig", index |-> -1]]
    /\ UNCHANGED <<env, oOffered, oSigned, aAccepted, aSigned, aFundTx, offerMsg, signMsg, res, fault, cursor, ran, closed, internal, again>>

\* The refund signature of the AcceptDlc message is altered on the way.
TamperAcceptRefundSig ==
    /\ AcceptInFlight
    /\ acceptMsg' = Some([Unwrap(acceptMsg) EXCEPT !.refund_signature = Invalid(@)])
    /\ tamper' = [tamper EXCEPT !.accept = [kind |-> "refund_sig", index |-> -1]]
    /\ UNCHANGED <<env, oOffered, oSigned, aAccepted, aSigned, aFundTx, offerMsg, signMsg, res, fault, cursor, ran, closed, internal, again>>

\* The accept_collateral field of the AcceptDlc message is altered on the
\* way, the signatures are not.
TamperAcceptCollateral ==
    /\ AcceptInFlight
    /\ \E c \in {Unwrap(acceptMsg).accept_collateral - 1, Unwrap(acceptMsg).accept_collateral + 1} :
        /\ acceptMsg' = Some([Unwrap(acceptMsg) EXCEPT !.accept_collateral = c])
        /\ tamper' = [tamper EXCEPT !.accept = [kind |-> "collateral", index |-> c]]
    /\ UNCHANGED <<env, oOffered, oSigned, aAccepted, aSigned, aFundTx, offerMsg, signMsg, res, fault, cursor, ran, closed, internal, again>>

\* The accepting party sends, in place of the message of accept_contract, an
\* AcceptDlc message for a larger collateral, with signatures to match.
DishonestAccept ==
    /\ AcceptInFlight
    /\ IsSome(aAccepted)
    /\ LET oc == Unwrap(aAccepted).offered_contract
           c == Unwrap(aAccepted).accept_params.collateral + 1
       IN /\ acceptMsg' = Some(dishonest_accept_msg(oc, env.wallets.accept, c))
          /\ tamper' = [tamper EXCEPT !.accept = [kind |-> "dishonest", index |-> c]]
    /\ UNCHANGED <<env, oOffered, oSigned, aAccepted, aSigned, aFundTx, offerMsg, signMsg, res, fault, cursor, ran, closed, internal, again>>

SignInFlight == IsSome(signMsg) /\ aSigned = None /\ tamper.sign = Untouched

\* One adaptor signature of the SignDlc message is altered on the way.
TamperSignAdaptorSig ==
    /\ SignInFlight
    /\ \E i \in 0..(Len(AdaptorSigsOf(Unwrap(signMsg))) - 1) :
        /\ signMsg' = Some(FlipAdaptorSig(Unwrap(signMsg), i))
        /\ tamper' = [tamper EXCEPT !.sign = [kind |-> "adaptor_sig", index |-> i]]
    /\ UNCHANGED <<env, oOffered, oSigned, aAccepted, aSigned, aFundTx, offerMsg, acceptMsg, res, fault, cursor, ran, closed, internal, again>>

\* The SignDlc message arrives with an adaptor signature too many.
TamperSignExtraSig ==
    /\ SignInFlight
    /\ signMsg' = Some(ExtraAdaptorSig(Unwrap(signMsg)))
    /\ tamper' = [tamper EXCEPT !.sign = [kind |-> "extra_sig", index |-> -1]]
    /\ UNCHANGED <<env, oOffered, oSigned, aAccepted, aSigned, aFundTx, offerMsg, acceptMsg, res, fault, cursor, ran, closed, internal, again>>

\* The refund signature of the SignDlc message is altered on the way.
TamperSignRefundSig ==
    /\ SignInFlight
    /\ signMsg' = Some([Unwrap(signMsg) EXCEPT !.refund_signature = Invalid(@)])
    /\ tamper' = [tamper EXCEPT !.sign = [kind |-> "refund_sig", index |-> -1]]
    /\ UNCHANGED <<env, oOffered, oSigned, aAccepted, aSigned, aFundTx, offerMsg, acceptMsg, res, fault, cursor, ran, closed, internal, again>>

\* The SignDlc message arrives without its last funding signature.
TamperSignFewerFundingSigs ==
    /\ SignInFlight
    /\ LET fs == Unwrap(signMsg).funding_signatures.funding_signatures
       IN signMsg' = Some([Unwrap(signMsg) EXCEPT !.funding_signatures.funding_signatures = SubSeq(fs, 1, Len(fs) - 1)])
    /\ tamper' = [tamper EXCEPT !.sign = [kind |-> "fewer_funding_sigs", index |-> -1]]
    /\ UNCHANGED <<env, oOffered, oSigned, aAccepted, aSigned, aFundTx, offerMsg, acceptMsg, res, fault, cursor, ran, closed, internal, again>>

\* ---------------------------------------------------------------- closure
SignedOf(party) == IF party = "offer" THEN oSigned ELSE aSigned
KeyOf(party) == IF party = "offer" THEN OfferKey ELSE AcceptKey

\* A party that holds a SignedContract calls get_signed_cet for an outcome
\* attested by the oracle of one of the contract-infos, with the AdaptorInfo
\* stored for that contract-info.  A run follows one closing call.
GetSignedCet ==
    /\ closed = NotClosed
    /\ \E party \in {"offer", "accept"} :
        /\ IsSome(SignedOf(party))
        /\ LET contract == Unwrap(SignedOf(party))
               cis == contract.accepted_contract.offered_contract.contract_info
           IN \E k \in 1..Len(cis) : \E outcome \in 0..(cis[k].outcomes - 1) : \E f \in {"none", "get_secret_key"} :
                LET r == get_signed_cet(contract, cis[k],
                                        contract.accepted_contract.adaptor_infos[k],
                                        Attestation(cis[k], outcome), Signer(KeyOf(party), f))
                IN closed' = [party |-> party, kind |-> "cet", k |-> k, outcome |-> outcome, fault |-> f,
                              res |-> Outcome(r), tx |-> IF r.ok THEN Some(r.val) ELSE None]
    /\ UNCHANGED <<env, oOffered, oSigned, aAccepted, aSigned, aFundTx, offerMsg, acceptMsg, signMsg, res, fault, cursor, tamper, ran, internal, again>>

\* A party that holds a SignedContract calls get_signed_refund.
GetSignedRefund ==
    /\ closed = NotClosed
    /\ \E party \in {"offer", "accept"} :
        /\ IsSome(SignedOf(party))
        /\ \E f \in {"none", "get_secret_key"} :
            LET r == get_signed_refund(Unwrap(SignedOf(party)), Signer(KeyOf(party), f))
            IN closed' = [party |-> party, kind |-> "refund", k |-> 0, outcome |-> 0, fault |-> f,
                          res |-> Outcome(r), tx |-> IF r.ok THEN Some(r.val) ELSE None]
    /\ UNCHANGED <<env, oOffered, oSigned, aAccepted, aSigned, aFundTx, offerMsg, acceptMsg, signMsg, res, fault, cursor, tamper, ran, internal, again>>

\* The script pubkey a channel gives the internal transitions in place of the
\* funding script pubkey.
ChannelScript == [multisig |-> <<OfferAdaptorKey, AcceptAdaptorKey>>]

\* The internal transitions as a channel calls them, with the overrides: the
\* accepting party signs with its adaptor key for the channel's script
\* (accept_contract_internal), the offering party verifies with the adaptor
\* pubkey of the accepting party and the channel's script as overrides
\* (verify_accepted_and_sign_contract_internal).
internal_with_overrides(offered_contract, accepted_contract) ==
    LET accept_params == accepted_contract.accept_params
        txs == create_dlc_transactions(offered_contract.offer_params, accept_params,
                    get_payouts(At(offered_contract.contract_info, 0), offered_contract.total_collateral),
                    offered_contract.refund_locktime, 0, offered_contract.cet_locktime).val
        value == get_fund_output_value(txs)
        a == accept_contract_internal(accepted_contract.offered_contract, accept_params,
                    accepted_contract.funding_inputs, AcceptAdaptorKey, value,
                    Some(ChannelScript), txs).val
    IN verify_accepted_and_sign_contract_internal(offered_contract, accept_params,
            accepted_contract.funding_inputs, a.accepted_contract.accept_refund_signature,
            a.adaptor_sigs, value, OfferAdaptorKey, Signer(OfferKey, "none"),
            Some(ChannelScript), Some(PublicKey(AcceptAdaptorKey)), txs, Some("channel"))

\* The two parties run the internal transitions with the overrides of a
\* channel on the contract they negotiate.
InternalWithOverrides ==
    /\ IsSome(oOffered) /\ IsSome(aAccepted)
    /\ internal = ""
    /\ internal' = Outcome(internal_with_overrides(Unwrap(oOffered), Unwrap(aAccepted)))
    /\ UNCHANGED <<env, oOffered, oSigned, aAccepted, aSigned, aFundTx, offerMsg, acceptMsg, signMsg, res, fault, cursor, tamper, ran, closed, again>>

Next ==
    \/ OfferContract
    \/ AcceptContract
    \/ VerifyAcceptedAndSignContract
    \/ VerifySignedContract
    \/ TamperAcceptAdaptorSig
    \/ TamperAcceptExtraSig
    \/ TamperAcceptRefundSig
    \/ TamperAcceptCollateral
    \/ DishonestAccept
    \/ TamperSignAdaptorSig
    \/ TamperSignExtraSig
    \/ TamperSignRefundSig
    \/ TamperSignFewerFundingSigs

Spec == Init /\ [][Next]_vars

\* The whole life cycle of a contract: negotiation, the internal transitions
\* with overrides, and closure.
LifeCycleInit ==
    /\ env \in LifeCycleEnvironments
    /\ Fresh

LifeCycleNext ==
    \/ Next
    \/ GetSignedCet
    \/ GetSignedRefund
    \/ InternalWithOverrides

LifeCycle == LifeCycleInit /\ [][LifeCycleNext]_vars

\* The accepting party calls verify_signed_contract a second time, with the
\* AcceptedContract it holds, the SignDlc message the first call ran on and a
\* Signer that behaves as in the first call.
VerifySignedContractAgain ==
    /\ IsSome(aAccepted)
    /\ IsSome(signMsg)
    /\ res.verify_sign # ""
    /\ ran.sign = tamper.sign
    /\ again = NotAgain
    /\ LET r == verify_signed_contract(Unwrap(aAccepted), Unwrap(signMsg),
                                       Signer(AcceptKey, fault.verify_sign))
       IN again' = [res |-> Outcome(r),
                    cursor |-> IF r.ok THEN r.val.adaptor_sig_start ELSE -1,
                    signed_contract |-> IF r.ok THEN Some(r.val.signed_contract) ELSE None,
                    fund_tx |-> IF r.ok THEN Some(r.val.fund_tx) ELSE None]
    /\ UNCHANGED <<env, oOffered, oSigned, aAccepted, aSigned, aFundTx, offerMsg, acceptMsg, signMsg, res, fault, cursor, tamper, ran, closed, internal>>

\* The negotiation with a repeated verification of the SignDlc message: every
\* contract-info list with the interleave wallets, and every pair of wallets
\* with the contract-info list of one outcome.
RepeatedInit ==
    /\ env \in {e \in Environments : Outcomes(e.contract_input.contract_infos) <= 1 \/ InterleaveWallets(e.wallets)}
    /\ Fresh

RepeatedNext ==
    \/ Next
    \/ VerifySignedContractAgain

Repeated == RepeatedInit /\ [][RepeatedNext]_vars

\* ------------------------------------------------------------ properties
\* Neither message was altered on the way.
Honest == tamper.accept = Untouched /\ tamper.sign = Untouched

Steps == {"offer", "accept", "verify_accept", "verify_sign"}

\* A fund transaction without the witnesses of its inputs.
NoWitness(fund) ==
    [fund EXCEPT !.input = [i \in 1..Len(fund.input) |-> [fund.input[i] EXCEPT !.witness = <<>>]]]

OffererTxs == Unwrap(oSigned).accepted_contract.dlc_transactions
AccepterTxs == Unwrap(aAccepted).dlc_transactions

\* C1: honest round trip.  When neither message is altered, every transition
\* that runs without a collaborator fault succeeds, and once
\* verify_signed_contract has succeeded both parties hold a SignedContract
\* and the fund transaction of the offerer's snapshot, the one of the
\* accepter's snapshot and the one verify_signed_contract returned are the
\* same transaction (same inputs, outputs and lock time).
C1_HonestRoundTrip ==
    Honest =>
        /\ \A step \in Steps :
            (res[step] # "" /\ fault[step] = "none") => res[step] = "ok"
        /\ res.verify_sign = "ok" =>
            /\ IsSome(oSigned) /\ IsSome(aSigned) /\ IsSome(aFundTx)
            /\ FundTxId(OffererTxs.fund) = FundTxId(Unwrap(aFundTx))
            /\ FundTxId(Unwrap(aSigned).accepted_contract.dlc_transactions.fund) = FundTxId(Unwrap(aFundTx))

\* C1 witness: an honest run over two contract-infos and three funding
\* inputs that ended with both parties signed.
C1_Witness ==
    /\ Honest
    /\ res.verify_sign = "ok"
    /\ IsSome(oSigned) /\ IsSome(aSigned)
    /\ Len(env.contract_input.contract_infos) >= 2
    /\ Len(Unwrap(aFundTx).input) = 3

\* The two parties hold the same offer (each knows which party it is) and the
\* same accept parameters.
SameParameters ==
    /\ [Unwrap(oSigned).accepted_contract.offered_contract EXCEPT !.is_offer_party = FALSE]
            = Unwrap(aAccepted).offered_contract
    /\ Unwrap(oSigned).accepted_contract.accept_params = Unwrap(aAccepted).accept_params

C3_BadAdaptorSigRejected ==
    (res.verify_accept # "" /\ ran.accept.kind = "adaptor_sig") =>
        /\ res.verify_accept # "ok"
        /\ oSigned = None
        /\ signMsg = None
        /\ fault.verify_accept # "get_secret_key" => res.verify_accept = "InvalidAdaptorSignature"

\* C3 witness: the altered signature was in the block of the second
\* contract-info, and the verification ran on it.
C3_Witness ==
    /\ res.verify_accept = "InvalidAdaptorSignature"
    /\ ran.accept.kind = "adaptor_sig"
    /\ Len(env.contract_input.contract_infos) >= 2
    /\ ran.accept.index >= env.contract_input.contract_infos[1].outcomes

\* C4 (as stated): the cursor of verify_accepted_and_sign_contract ends on the
\* number of adaptor signatures of the accept message, and an accept message
\* with an adaptor signature more than the contract-infos consume is rejected
\* and gives no SignedContract.
C4_TrailingSigRejected ==
    /\ IsSome(oSigned) =>
        cursor.verify_accept = Len(Unwrap(Unwrap(oSigned).accepted_contract.adaptor_signatures))
    /\ (res.verify_accept # "" /\ ran.accept.kind = "extra_sig") =>
        (res.verify_accept # "ok" /\ oSigned = None)

\* C5 (as stated): verify_signed_contract succeeds only if its final cursor
\* equals the number of adaptor signatures of the sign message; a sign message
\* with an adaptor signature too many gives no SignedContract.
C5_FinalCursorEqualsLen ==
    /\ IsSome(aSigned) =>
        cursor.verify_sign = Len(Unwrap(Unwrap(aSigned).adaptor_signatures))
    /\ (res.verify_sign # "" /\ ran.sign.kind = "extra_sig") =>
        (res.verify_sign # "ok" /\ aSigned = None)

\* offer collateral + accept collateral = total collateral in a snapshot.
CollateralSum(accepted_contract) ==
    accepted_contract.offered_contract.offer_params.collateral + accepted_contract.accept_params.collateral
        = accepted_contract.offered_contract.total_collateral

\* The sum of the outputs of a CET.
CetValue(cet) == SumSeq([i \in 1..Len(cet.output) |-> cet.output[i].value])

\* C6 (as stated): offer collateral + accept collateral = total collateral in
\* the AcceptedContract of either party, an accept message whose
\* accept_collateral breaks the equality leads to no SignedContract, and the
\* CETs of every contract-info pay out the same total collateral.
C6_CollateralSum ==
    /\ IsSome(aAccepted) => CollateralSum(Unwrap(aAccepted))
    /\ IsSome(oSigned) =>
        /\ CollateralSum(Unwrap(oSigned).accepted_contract)
        /\ \A i \in 1..Len(OffererTxs.cets) :
            CetValue(OffererTxs.cets[i]) = Unwrap(oSigned).accepted_contract.offered_contract.total_collateral
    /\ ran.accept.kind \in {"collateral", "dishonest"} => oSigned = None

\* The CETs accept_contract builds for the contract-info at position k (from
\* 1) of a snapshot: the first with the CET lock time, the later with 0.
CetsOfContractInfo(accepted_contract, k) ==
    LET offered_contract == accepted_contract.offered_contract
    IN create_cets(accepted_contract.dlc_transactions.cets[1].input,
                   offered_contract.offer_params.payout_script_pubkey,
                   offered_contract.offer_params.payout_serial_id,
                   accepted_contract.accept_params.payout_script_pubkey,
                   accepted_contract.accept_params.payout_serial_id,
                   get_payouts(offered_contract.contract_info[k], offered_contract.total_collateral),
                   IF k = 1 THEN offered_contract.cet_locktime ELSE 0)

\* C7: the flat adaptor-signature list accept_contract emits has one
\* signature per CET of every contract-info, the block of the contract-info
\* at position k starts at the sum of the counts of the contract-infos
\* before it and holds, in order, the signatures of that contract-info's
\* CETs for that contract-info's adaptor points; the CET list of the
\* snapshot is the concatenation of the per-contract-info CET lists in
\* declaration order, and the adaptor infos index the list the same way.
C7_FlatAdaptorLayout ==
    (IsSome(aAccepted) /\ IsSome(acceptMsg) /\ tamper.accept = Untouched) =>
        LET ac == Unwrap(aAccepted)
            cis == ac.offered_contract.contract_info
            sigs == AdaptorSigsOf(Unwrap(acceptMsg))
            cets == ac.dlc_transactions.cets
            BlockStart(k) == SumSeq([i \in 1..(k - 1) |-> cis[i].outcomes])
        IN /\ Len(sigs) = Outcomes(cis)
           /\ Len(cets) = Outcomes(cis)
           /\ Len(ac.adaptor_infos) = Len(cis)
           /\ \A k \in 1..Len(cis) :
                /\ Len(CetsOfContractInfo(ac, k)) = cis[k].outcomes
                /\ Len(ac.adaptor_infos[k]) = cis[k].outcomes
                /\ \A j \in 0..(cis[k].outcomes - 1) :
                    /\ BlockStart(k) + j < Len(sigs)
                    /\ BlockStart(k) + j < Len(cets)
                    /\ At(cets, BlockStart(k) + j) = At(CetsOfContractInfo(ac, k), j)
                    /\ At(sigs, BlockStart(k) + j).signature =
                        AdaptorSign(AcceptKey, At(CetsOfContractInfo(ac, k), j),
                                    ac.dlc_transactions.funding_script_pubkey,
                                    ac.dlc_transactions.fund.value,
                                    AdaptorPoint(cis[k], j))
                    /\ At(ac.adaptor_infos[k], j).adaptor_index = BlockStart(k) + j

\* C7 witness: accept_contract ran on an offer of two contract-infos, the
\* first of them with two outcomes, so that the second block starts at 2.
C7_Witness ==
    /\ IsSome(aAccepted) /\ IsSome(acceptMsg) /\ tamper.accept = Untouched
    /\ Len(env.contract_input.contract_infos) = 2
    /\ env.contract_input.contract_infos[1].outcomes = 2
    /\ Len(AdaptorSigsOf(Unwrap(acceptMsg))) = 3

\* The serial ids of the funding inputs of both parties in a snapshot, the
\* offering party's first.
SerialIdsOf(accepted_contract) ==
    LET all == accepted_contract.offered_contract.funding_inputs_info \o accepted_contract.funding_inputs
    IN [i \in 1..Len(all) |-> all[i].input_serial_id]

\* The rank of serial id s in the ascending sort of ids: how many are smaller.
Rank(s, ids) == Cardinality({i \in 1..Len(ids) : ids[i] < s})

\* No serial id occurs twice.
Unique(ids) == \A i, j \in 1..Len(ids) : i # j => ids[i] # ids[j]

\* C8 (as stated, for funding inputs of distinct serial ids): the fund
\* transaction verify_signed_contract returns is fully signed.  No input is
\* without a witness, the sign message has a funding signature for every
\* funding input of the offering party, each of these inputs carries the
\* witness the message supplied for it, and each input of the accepting party
\* carries a witness of its Signer.
C8_FullySigned ==
    (IsSome(aFundTx) /\ Unique(SerialIdsOf(Unwrap(aAccepted)))) =>
        LET ac == Unwrap(aAccepted)
            fund == Unwrap(aFundTx)
            offer_inputs == ac.offered_contract.funding_inputs_info
            fs == Unwrap(signMsg).funding_signatures.funding_signatures
        IN /\ \A i \in 1..Len(fund.input) : fund.input[i].witness # <<>>
           /\ Len(fs) >= Len(offer_inputs)
           /\ \A k \in 1..Len(offer_inputs) : \A i \in 1..Len(fund.input) :
                (k <= Len(fs) /\ fund.input[i].serial_id = offer_inputs[k].input_serial_id) =>
                    fund.input[i].witness = witness_from_elements(fs[k].witness_elements)
           /\ \A k \in 1..Len(ac.funding_inputs) : \A i \in 1..Len(fund.input) :
                fund.input[i].serial_id = ac.funding_inputs[k].input_serial_id =>
                    /\ fund.input[i].witness # <<>>
                    /\ fund.input[i].witness[1].by = AcceptKey

\* C9: the fund-transaction index of a funding input is the rank of its
\* serial id among the serial ids of both parties, in whatever order the
\* parties list their inputs.  The offering party signs its k-th funding
\* input at that index, for the prevout of that input, and the k-th funding
\* signature of its SignDlc message is the witness of that input.  The
\* accepting party installs the k-th funding signature of the message at the
\* rank of the k-th offer funding input, the index at which it was signed,
\* and signs each of its own inputs at the rank of its serial id.
C9_CanonicalIndex ==
    /\ IsSome(oSigned) =>
        LET ac == Unwrap(oSigned).accepted_contract
            ids == SerialIdsOf(ac)
            offer_inputs == ac.offered_contract.funding_inputs_info
            fs == Unwrap(oSigned).funding_signatures.funding_signatures
        IN /\ Len(fs) = Len(offer_inputs)
           /\ \A k \in 1..Len(offer_inputs) :
                LET w == witness_from_elements(fs[k].witness_elements)
                    r == Rank(offer_inputs[k].input_serial_id, ids)
                IN /\ w # <<>>
                   /\ w[1].by = OfferKey
                   /\ w[1].index = r
                   /\ w[1].prevout = funding_prevout(offer_inputs[k]).val
                   /\ At(ac.dlc_transactions.fund.input, r).witness = w
                   /\ At(ac.dlc_transactions.fund.input, r).serial_id = offer_inputs[k].input_serial_id
    /\ IsSome(aFundTx) =>
        LET ac == Unwrap(aAccepted)
            ids == SerialIdsOf(ac)
            fund == Unwrap(aFundTx)
            offer_inputs == ac.offered_contract.funding_inputs_info
            fs == Unwrap(aSigned).funding_signatures.funding_signatures
        IN /\ \A k \in 1..Len(ac.funding_inputs) :
                LET r == Rank(ac.funding_inputs[k].input_serial_id, ids)
                    w == At(fund.input, r).witness
                IN /\ w # <<>>
                   /\ w[1].by = AcceptKey
                   /\ w[1].index = r
                   /\ w[1].prevout = funding_prevout(ac.funding_inputs[k]).val
                   /\ At(fund.input, r).serial_id = ac.funding_inputs[k].input_serial_id
           /\ \A k \in 1..Len(offer_inputs) : k <= Len(fs) =>
                LET r == Rank(offer_inputs[k].input_serial_id, ids)
                    w == At(fund.input, r).witness
                    sent == witness_from_elements(fs[k].witness_elements)
                IN /\ At(fund.input, r).serial_id = offer_inputs[k].input_serial_id
                   /\ sent[1].index = r
                   /\ \/ w = sent
                      \/ \E j \in 1..Len(ac.funding_inputs) :
                            /\ ac.funding_inputs[j].input_serial_id = offer_inputs[k].input_serial_id
                            /\ w[1].by = AcceptKey

\* C9 witness: the spec's interleave example.  The offering party lists the
\* serial ids 7, 2 and the accepting party 5; the returned fund transaction
\* has them in the order 2, 5, 7 and the offering party's first input, of
\* serial id 7, carries its witness at index 2.
C9_Witness ==
    /\ IsSome(oSigned) /\ IsSome(aFundTx)
    /\ SerialIdsOf(Unwrap(aAccepted)) = <<7, 2, 5>>
    /\ [i \in 1..3 |-> Unwrap(aFundTx).input[i].serial_id] = <<2, 5, 7>>
    /\ At(Unwrap(aFundTx).input, 2).witness =
        witness_from_elements(Unwrap(aSigned).funding_signatures.funding_signatures[1].witness_elements)
    /\ At(Unwrap(aFundTx).input, 2).witness[1].by = OfferKey

\* C10 (as stated): the serial ids of the funding inputs of both parties are
\* free of duplicates in every snapshot that is Accepted or Signed, and no
\* witness of the offering party is overwritten in the fund transaction
\* verify_signed_contract returns.
C10_UniqueSerialIds ==
    /\ IsSome(aAccepted) => Unique(SerialIdsOf(Unwrap(aAccepted)))
    /\ IsSome(oSigned) => Unique(SerialIdsOf(Unwrap(oSigned).accepted_contract))
    /\ IsSome(aSigned) => Unique(SerialIdsOf(Unwrap(aSigned).accepted_contract))
    /\ IsSome(aFundTx) =>
        LET ac == Unwrap(aAccepted)
            offer_inputs == ac.offered_contract.funding_inputs_info
            fs == Unwrap(aSigned).funding_signatures.funding_signatures
        IN \A k \in 1..Len(offer_inputs) : k <= Len(fs) =>
            At(Unwrap(aFundTx).input, Rank(offer_inputs[k].input_serial_id, SerialIdsOf(ac))).witness
                = witness_from_elements(fs[k].witness_elements)

\* The fund key of the other party.
OtherKeyOf(party) == IF party = "offer" THEN AcceptKey ELSE OfferKey

\* The adaptor signatures a party received: those of the message it verified.
ReceivedAdaptorSigs(party) ==
    from_cet_adaptor_signatures(Unwrap(IF party = "offer" THEN acceptMsg ELSE signMsg).cet_adaptor_signatures)

\* C11: in every SignedContract the negotiation produces, the adaptor
\* signature list get_signed_cet selects by is_offer_party is present and is
\* the list the party received from the other party (the offering party its
\* AcceptedContract's, the accepting party its SignedContract's); the call
\* never fails on an absent list or an index out of range, and the signed CET
\* carries the signature of the caller's own fund key next to the decrypted
\* signature of the other party, for the other party's fund pubkey.
C11_CounterPartySignatures ==
    /\ \A party \in {"offer", "accept"} : IsSome(SignedOf(party)) =>
        LET parties == cet_signing_parties(Unwrap(SignedOf(party)))
        IN /\ IsSome(parties.adaptor_sigs)
           /\ Unwrap(parties.adaptor_sigs) = ReceivedAdaptorSigs(party)
           /\ parties.fund_pubkey = PublicKey(KeyOf(party))
           /\ parties.other_pubkey = PublicKey(OtherKeyOf(party))
    /\ closed.kind = "cet" =>
        /\ closed.res = (IF closed.fault = "none" THEN "ok" ELSE "SignerError")
        /\ closed.res = "ok" =>
            LET w == Unwrap(closed.tx).input.witness
                contract == Unwrap(SignedOf(closed.party))
                k == closed.k
                leaf == At(contract.accepted_contract.adaptor_infos[k], closed.outcome)
            IN /\ w.own.key = KeyOf(closed.party)
               /\ w.other_pk = PublicKey(OtherKeyOf(closed.party))
               /\ w.other = Decrypt(At(ReceivedAdaptorSigs(closed.party), leaf.adaptor_index),
                                    AdaptorPoint(contract.accepted_contract.offered_contract.contract_info[k], closed.outcome))

\* C11 witness: both parties hold a SignedContract of two contract-infos and
\* the accepting party got a signed CET for an outcome of the second one.
C11_Witness ==
    /\ IsSome(oSigned) /\ IsSome(aSigned)
    /\ closed.kind = "cet" /\ closed.party = "accept" /\ closed.res = "ok"
    /\ closed.k = 2
    /\ Unwrap(closed.tx).input.witness.own.key = AcceptKey

\* The signature is the refund signature of the fund key sk over the refund
\* transaction of the snapshot, for its funding script and fund output value.
IsRefundSignature(signature, accepted_contract, sk) ==
    signature = get_raw_sig_for_tx_input(accepted_contract.dlc_transactions.refund, 0,
                    accepted_contract.dlc_transactions.funding_script_pubkey,
                    get_fund_output_value(accepted_contract.dlc_transactions), sk)

\* C12: accept_refund_signature is made with the accepting party's fund key
\* and offer_refund_signature with the offering party's, each over the refund
\* transaction of the snapshot that stores it, so each verifies under the fund
\* pubkey of its maker where it was received.  get_signed_refund combines the
\* caller's own signature with the stored signature of the other party, and
\* either party gets the refund transaction when its Signer has the key.
C12_RefundSignatures ==
    /\ IsSome(aAccepted) =>
        IsRefundSignature(Unwrap(aAccepted).accept_refund_signature, Unwrap(aAccepted), AcceptKey)
    /\ \A party \in {"offer", "accept"} : IsSome(SignedOf(party)) =>
        LET contract == Unwrap(SignedOf(party))
            ac == contract.accepted_contract
            txs == ac.dlc_transactions
        IN /\ IsRefundSignature(ac.accept_refund_signature, ac, AcceptKey)
           /\ IsRefundSignature(contract.offer_refund_signature, ac, OfferKey)
           /\ verify_tx_input_sig(ac.accept_refund_signature, txs.refund, 0, txs.funding_script_pubkey,
                                  get_fund_output_value(txs), ac.accept_params.fund_pubkey)
           /\ verify_tx_input_sig(contract.offer_refund_signature, txs.refund, 0, txs.funding_script_pubkey,
                                  get_fund_output_value(txs), ac.offered_contract.offer_params.fund_pubkey)
    /\ closed.kind = "refund" =>
        /\ closed.res = (IF closed.fault = "none" THEN "ok" ELSE "SignerError")
        /\ closed.res = "ok" =>
            LET w == Unwrap(closed.tx).input.witness
                contract == Unwrap(SignedOf(closed.party))
                ac == contract.accepted_contract
            IN /\ IsRefundSignature(w.own, ac, KeyOf(closed.party))
               /\ IsRefundSignature(w.other, ac, OtherKeyOf(closed.party))
               /\ w.other = (IF closed.party = "offer" THEN ac.accept_refund_signature
                             ELSE contract.offer_refund_signature)
               /\ w.other_pk = PublicKey(OtherKeyOf(closed.party))

\* C12 witness: both parties hold a SignedContract and the offering party got
\* the signed refund transaction, with the accepting party's stored signature.
C12_Witness ==
    /\ IsSome(oSigned) /\ IsSome(aSigned)
    /\ closed.kind = "refund" /\ closed.party = "offer" /\ closed.res = "ok"
    /\ Unwrap(closed.tx).input.witness.other.key = AcceptKey
    /\ Unwrap(closed.tx).input.witness.own.key = OfferKey

\* No signature of the list was made with the key.
NoneMadeBy(sigs, sk) == \A i \in 1..Len(sigs) : sigs[i].key # sk

\* C13: no snapshot stores the adaptor signatures its own party made.  The
\* AcceptedContract accept_contract returns has no adaptor signatures; the
\* offering party's SignedContract has none of its own and stores the
\* accepting party's in its AcceptedContract; the accepting party's
\* SignedContract stores the offering party's, and its AcceptedContract none.
C13_NoOwnAdaptorSignatures ==
    /\ IsSome(aAccepted) => Unwrap(aAccepted).adaptor_signatures = None
    /\ IsSome(oSigned) =>
        LET contract == Unwrap(oSigned)
        IN /\ contract.adaptor_signatures = None
           /\ contract.accepted_contract.adaptor_signatures = Some(ReceivedAdaptorSigs("offer"))
           /\ NoneMadeBy(ReceivedAdaptorSigs("offer"), OfferKey)
    /\ IsSome(aSigned) =>
        LET contract == Unwrap(aSigned)
        IN /\ contract.accepted_contract.adaptor_signatures = None
           /\ contract.adaptor_signatures = Some(ReceivedAdaptorSigs("accept"))
           /\ NoneMadeBy(ReceivedAdaptorSigs("accept"), AcceptKey)

\* C13 witness: both parties hold a SignedContract, each with the three
\* adaptor signatures of the other party.
C13_Witness ==
    /\ IsSome(oSigned) /\ IsSome(aSigned)
    /\ Len(Unwrap(Unwrap(oSigned).accepted_contract.adaptor_signatures)) = 3
    /\ Len(Unwrap(Unwrap(aSigned).adaptor_signatures)) = 3
    /\ \A i \in 1..3 : Unwrap(Unwrap(aSigned).adaptor_signatures)[i].key = OfferKey
    /\ \A i \in 1..3 : Unwrap(Unwrap(oSigned).accepted_contract.adaptor_signatures)[i].key = AcceptKey

\* The transition ran last with an error.
Failed(step) == res[step] \notin {"", "ok"}

\* After a failed transition there is no successor snapshot and no outgoing
\* message, and what the transition needs to run again is still there: the
\* predecessor snapshot and the message it ran on.
FailureLeavesNothing ==
    /\ Failed("offer") => (oOffered = None /\ offerMsg = None)
    /\ Failed("accept") => (aAccepted = None /\ acceptMsg = None /\ IsSome(offerMsg))
    /\ Failed("verify_accept") =>
        (oSigned = None /\ signMsg = None /\ IsSome(oOffered) /\ IsSome(acceptMsg))
    /\ Failed("verify_sign") =>
        (aSigned = None /\ aFundTx = None /\ IsSome(aAccepted) /\ IsSome(signMsg))
    /\ closed.res \notin {"", "ok"} => (closed.tx = None /\ IsSome(SignedOf(closed.party)))

\* A transition that returns an error changes no snapshot and no message.
FailureChangesNothing ==
    /\ (OfferContract /\ res'.offer # "ok") =>
        UNCHANGED <<oOffered, oSigned, aAccepted, aSigned, aFundTx, offerMsg, acceptMsg, signMsg>>
    /\ (AcceptContract /\ res'.accept # "ok") =>
        UNCHANGED <<oOffered, oSigned, aAccepted, aSigned, aFundTx, offerMsg, acceptMsg, signMsg>>
    /\ (VerifyAcceptedAndSignContract /\ res'.verify_accept # "ok") =>
        UNCHANGED <<oOffered, oSigned, aAccepted, aSigned, aFundTx, offerMsg, acceptMsg, signMsg>>
    /\ (VerifySignedContract /\ res'.verify_sign # "ok") =>
        UNCHANGED <<oOffered, oSigned, aAccepted, aSigned, aFundTx, offerMsg, acceptMsg, signMsg>>
    /\ ((GetSignedCet \/ GetSignedRefund) /\ closed'.res # "ok") =>
        (closed'.tx = None /\ UNCHANGED <<oOffered, oSigned, aAccepted, aSigned, aFundTx, offerMsg, acceptMsg, signMsg>>)

PhaseOrder ==
    /\ IsSome(oSigned) =>
        /\ IsSome(oOffered) /\ IsSome(acceptMsg) /\ res.verify_accept = "ok"
        /\ Unwrap(oSigned).accepted_contract.offered_contract = Unwrap(oOffered)
    /\ IsSome(aAccepted) => (IsSome(offerMsg) /\ res.accept = "ok")
    /\ IsSome(aSigned) =>
        /\ IsSome(aAccepted) /\ IsSome(signMsg) /\ res.verify_sign = "ok"
        /\ Unwrap(aSigned).accepted_contract = Unwrap(aAccepted)
        /\ IsSome(oSigned)
    /\ closed.kind # "none" => IsSome(SignedOf(closed.party))
    /\ IsSome(closed.tx) =>
        LET dlc_transactions == Unwrap(SignedOf(closed.party)).accepted_contract.dlc_transactions
        IN Unwrap(closed.tx).input.previous_output = dlc_transactions.refund.input.previous_output

\* A snapshot a party holds is never given up nor replaced.
NoStepBack ==
    /\ IsSome(oOffered) => oOffered' = oOffered
    /\ IsSome(oSigned) => oSigned' = oSigned
    /\ IsSome(aAccepted) => aAccepted' = aAccepted
    /\ IsSome(aSigned) => aSigned' = aSigned

HasBadInput(funding_inputs) ==
    \E i \in 1..Len(funding_inputs) :
        \/ ~IsSome(consensus_decode(funding_inputs[i].prev_tx))
        \/ funding_inputs[i].prev_tx_vout >= funding_inputs[i].prev_tx.outputs

\* The sorted serial ids of both parties without the serial id s.
SerialIdsWithout(accepted_contract, s) ==
    LET Other(x) == x # s
    IN SelectSeq(sort_unstable(SerialIdsOf(accepted_contract)), Other)

\* C16: a funding input of the offering party (in
\* verify_accepted_and_sign_contract) or of the accepting party (in
\* verify_signed_contract) whose prev_tx cannot be decoded or whose
\* prev_tx_vout is not below the number of outputs of the prev_tx makes the
\* transition fail, with InvalidParameters when nothing failed before that
\* input; signing the funding inputs against a sorted union that lacks the
\* serial id of one of them fails, with InvalidState when no input before it
\* is bad; in each case there is no SignedContract.
C16_BadFundingInput ==
    /\ (res.verify_accept # "" /\ HasBadInput(Unwrap(oOffered).funding_inputs_info)) =>
        /\ oSigned = None /\ signMsg = None
        /\ res.verify_accept # "ok"
        /\ (ran.accept = Untouched /\ fault.verify_accept = "none") => res.verify_accept = "InvalidParameters"
    /\ (res.verify_sign # "" /\ HasBadInput(Unwrap(aAccepted).funding_inputs)) =>
        /\ aSigned = None /\ aFundTx = None
        /\ res.verify_sign # "ok"
        /\ (ran.accept = Untouched /\ ran.sign = Untouched /\ fault.verify_sign = "none") =>
            res.verify_sign = "InvalidParameters"
    /\ IsSome(aAccepted) =>
        LET ac == Unwrap(aAccepted)
            offer_inputs == ac.offered_contract.funding_inputs_info
            fund == ac.dlc_transactions.fund
        IN /\ \A i \in 1..Len(offer_inputs) :
                LET r == sign_offer_inputs(offer_inputs, SerialIdsWithout(ac, offer_inputs[i].input_serial_id),
                                           Signer(OfferKey, "none"), 0, [fund |-> fund, witnesses |-> <<>>])
                IN /\ ~r.ok
                   /\ ~HasBadInput(SubSeq(offer_inputs, 1, i - 1)) => r.err = "InvalidState"
           /\ \A i \in 1..Len(ac.funding_inputs) :
                LET r == sign_accept_inputs(ac.funding_inputs, SerialIdsWithout(ac, ac.funding_inputs[i].input_serial_id),
                                            Signer(AcceptKey, "none"), 0, fund)
                IN /\ ~r.ok
                   /\ ~HasBadInput(SubSeq(ac.funding_inputs, 1, i - 1)) => r.err = "InvalidState"

\* C16 witness: the accepting party holds a funding input whose prev_tx_vout
\* names no output; the offering party signed, and verify_signed_contract
\* failed on the unaltered SignDlc with InvalidParameters.
C16_Witness ==
    /\ IsSome(aAccepted) /\ IsSome(oSigned) /\ aSigned = None
    /\ Unwrap(aAccepted).funding_inputs[1].prev_tx_vout = 1
    /\ ran.accept = Untouched /\ ran.sign = Untouched /\ fault.verify_sign = "none"
    /\ res.verify_sign = "InvalidParameters"

InvalidSignature == {"InvalidRefundSignature", "InvalidAdaptorSignature"}

\* What verify_accepted_and_sign_contract and verify_signed_contract return
\* on the messages in flight when the Signer signs every funding input.
VerifyAcceptWithoutFault ==
    verify_accepted_and_sign_contract(Unwrap(oOffered), Unwrap(acceptMsg), Signer(OfferKey, "none"))
VerifySignWithoutFault ==
    verify_signed_contract(Unwrap(aAccepted), Unwrap(signMsg), Signer(AcceptKey, "none"))

\* C17: verify before sign.  A Signer that fails to sign a funding input is
\* met only after the refund signature and every adaptor signature of the
\* other party verified: when one of them is invalid the transition returns
\* the verification error and not the Signer's, and each time the Signer's
\* error is returned the signatures of the message verify.  A verification
\* failure leaves no funding signature, no refund signature of the party and
\* no signed fund transaction.
C17_VerifyBeforeSign ==
    /\ (res.verify_accept # "" /\ ran.accept = tamper.accept /\ fault.verify_accept = "sign_tx_input") =>
        /\ ran.accept.kind \in {"adaptor_sig", "refund_sig"} => res.verify_accept \in InvalidSignature
        /\ res.verify_accept = "SignerError" =>
            (VerifyAcceptWithoutFault.ok \/ VerifyAcceptWithoutFault.err \notin InvalidSignature)
        /\ res.verify_accept = Outcome(VerifyAcceptWithoutFault) \/ res.verify_accept = "SignerError"
    /\ (res.verify_sign # "" /\ ran.sign = tamper.sign /\ fault.verify_sign = "sign_tx_input") =>
        /\ ran.sign.kind \in {"adaptor_sig", "refund_sig"} => res.verify_sign \in InvalidSignature
        /\ res.verify_sign = "SignerError" =>
            (VerifySignWithoutFault.ok \/ VerifySignWithoutFault.err \notin InvalidSignature)
        /\ res.verify_sign = Outcome(VerifySignWithoutFault) \/ res.verify_sign = "SignerError"
    /\ res.verify_accept \in InvalidSignature => (oSigned = None /\ signMsg = None)
    /\ res.verify_sign \in InvalidSignature => (aSigned = None /\ aFundTx = None)

\* C17 witness: the last adaptor signature of the SignDlc message was altered
\* and the accepting party's Signer would have failed to sign; the transition
\* returned the verification error.
C17_Witness ==
    /\ ran.sign.kind = "adaptor_sig" /\ ran.sign.index = 2
    /\ fault.verify_sign = "sign_tx_input"
    /\ res.verify_sign = "InvalidAdaptorSignature"
    /\ aSigned = None /\ aFundTx = None

\* Where the adaptor-signature block of the contract-info at position k (from
\* 1) of a snapshot starts in the flat list.
BlockStart(accepted_contract, k) ==
    SumSeq([i \in 1..(k - 1) |-> accepted_contract.offered_contract.contract_info[i].outcomes])

\* C18 (as stated): when no message was altered, for every contract-info at
\* position k and every outcome j of it, one CET, the one with the payouts of that contract-info for that
\* outcome, is the CET the accepting party signs, the CET the offering party
\* verifies that signature against, the CET the offering party signs, the CET
\* the accepting party verifies that signature against and the CET
\* get_signed_cet selects through range_info.cet_index.
C18_SameCetEverywhere ==
    /\ (IsSome(oSigned) /\ IsSome(aSigned) /\ ran.accept = Untouched /\ ran.sign = Untouched) =>
        LET ac == Unwrap(aSigned).accepted_contract
            cis == ac.offered_contract.contract_info
            accept_sigs == Unwrap(Unwrap(oSigned).accepted_contract.adaptor_signatures)
            offer_sigs == Unwrap(Unwrap(aSigned).adaptor_signatures)
        IN \A k \in 1..Len(cis) : \A j \in 0..(cis[k].outcomes - 1) :
            LET cet == At(CetsOfContractInfo(ac, k), j)
                leaf == At(ac.adaptor_infos[k], j)
            IN /\ leaf.adaptor_index = BlockStart(ac, k) + j
               /\ At(accept_sigs, leaf.adaptor_index).tx = cet
               /\ At(Unwrap(oSigned).accepted_contract.dlc_transactions.cets, BlockStart(ac, k) + j) = cet
               /\ At(offer_sigs, leaf.adaptor_index).tx = cet
               /\ At(ac.dlc_transactions.cets, leaf.cet_index) = cet
    /\ (closed.kind = "cet" /\ IsSome(closed.tx) /\ ran.accept = Untouched /\ ran.sign = Untouched) =>
        LET ac == Unwrap(SignedOf(closed.party)).accepted_contract
            cet == At(CetsOfContractInfo(ac, closed.k), closed.outcome)
            signed == Unwrap(closed.tx)
        IN /\ StripWitness(signed) = StripWitness(cet)
           /\ signed.input.witness.other.key = OtherKeyOf(closed.party)
           /\ signed.input.witness.other.tx = cet

\* C19 (as stated): verify_accepted_and_sign_contract_internal verifies the
\* refund signature and the adaptor-signature blocks of all contract-infos
\* under one counter-party key and one script, also with the overrides: what
\* an accepting party signed with its adaptor key for the script of the
\* channel, for every contract-info, verifies under the overrides
\* counter_adaptor_pk and input_script_pubkey; no signature is found invalid.
C19_OneKeyOneScript == internal \notin InvalidSignature

\* The closing transaction a call returned is the stored transaction with
\* the witness of its input set, and nothing else changed.
ClosedTxIsStoredTx ==
    IsSome(closed.tx) =>
        LET contract == Unwrap(SignedOf(closed.party))
            ac == contract.accepted_contract
            offered_contract == ac.offered_contract
            txs == ac.dlc_transactions
            signed == Unwrap(closed.tx)
        IN /\ closed.kind = "refund" =>
                /\ signed = WithWitness(txs.refund, signed.input.witness)
                /\ signed.input.previous_output = txs.refund.input.previous_output
                /\ signed.lock_time = offered_contract.refund_locktime
                /\ signed.output = txs.refund.output
                /\ Len(signed.output) = 2
                /\ {signed.output[1], signed.output[2]} =
                    {[script_pubkey |-> offered_contract.offer_params.payout_script_pubkey,
                      value |-> offered_contract.offer_params.collateral],
                     [script_pubkey |-> ac.accept_params.payout_script_pubkey,
                      value |-> ac.accept_params.collateral]}
           /\ closed.kind = "cet" =>
                LET leaf == At(ac.adaptor_infos[closed.k], closed.outcome)
                    cet == At(txs.cets, leaf.cet_index)
                IN /\ signed = WithWitness(cet, signed.input.witness)
                   /\ signed.input.previous_output = cet.input.previous_output
                   /\ signed.lock_time = cet.lock_time
                   /\ signed.output = cet.output

\* A closing call changes no snapshot, message or transaction of a party.
ClosingChangesNothing ==
    (GetSignedCet \/ GetSignedRefund) =>
        UNCHANGED <<oOffered, oSigned, aAccepted, aSigned, aFundTx, offerMsg, acceptMsg, signMsg>>

\* C20: get_signed_refund returns a copy of the stored refund transaction in
\* which only the witness of input 0 differs, with the refund lock time of
\* the offer and the outputs unchanged (offer collateral to the offer payout
\* script, accept collateral to the accept payout script); get_signed_cet
\* returns a copy of the stored CET at cet_index with only the witness
\* changed; neither call modifies the SignedContract.
C20_OnlyTheWitnessDiffers == []ClosedTxIsStoredTx /\ [][ClosingChangesNothing]_vars

\* C20 witness: the accepting party got the signed refund transaction, with
\* lock time 15 and two outputs of collateral 1.
C20_Witness ==
    /\ closed.kind = "refund" /\ closed.party = "accept" /\ IsSome(closed.tx)
    /\ Unwrap(closed.tx).lock_time = Unwrap(aAccepted).offered_contract.refund_locktime
    /\ Unwrap(closed.tx).lock_time > Unwrap(aAccepted).offered_contract.cet_locktime
    /\ Len(Unwrap(closed.tx).output) = 2
    /\ Unwrap(closed.tx).input.witness.own.key = AcceptKey

\* The second call of verify_signed_contract returned what the first call
\* returned: the same outcome, the same final cursor, an equal SignedContract
\* and an equal fund transaction.
SecondCallAgrees ==
    again' # again =>
        /\ again'.res = res.verify_sign
        /\ again'.cursor = cursor.verify_sign
        /\ again'.signed_contract = aSigned
        /\ again'.fund_tx = aFundTx
        /\ UNCHANGED <<aAccepted, aSigned, aFundTx, signMsg>>

\* Installing the witnesses of the SignDlc message in the fund transaction
\* that holds them already changes no witness: in the fund transaction of the
\* AcceptedContract with the witnesses installed once, and, when no two
\* funding inputs share a serial id, in the fund transaction
\* verify_signed_contract returned.
InstallTwice ==
    (IsSome(aAccepted) /\ IsSome(signMsg)) =>
        LET ac == Unwrap(aAccepted)
            offer_inputs == ac.offered_contract.funding_inputs_info
            fs == Unwrap(signMsg).funding_signatures.funding_signatures
            input_serials == accept_input_serials(ac)
            once == install_offer_witnesses(offer_inputs, fs, input_serials, 0, ac.dlc_transactions.fund)
        IN /\ once.ok
           /\ install_offer_witnesses(offer_inputs, fs, input_serials, 0, once.val) = once
           /\ (IsSome(aFundTx) /\ Unique(SerialIdsOf(ac))) =>
                install_offer_witnesses(offer_inputs, fs, input_serials, 0, Unwrap(aFundTx)) = Ok(Unwrap(aFundTx))

=============================================================================
